---- MODULE Spec2Model ----
(***************************************************************************)
(* LivePipe intent pipeline: dedup store, review gate, config store,       *)
(* notification fan-out and the poll / hotkey driving loops.               *)
(*                                                                         *)
(* Text is modelled as a sequence of one-character tokens; "sp" is a       *)
(* space, "nl" a line feed, "A"/"B" the upper-case forms of "a"/"b".       *)
(* Time is counted in whole days (the unit of dedup.lookbackDays).         *)
(* Similarities and thresholds are exact rationals.                        *)
(***************************************************************************)
EXTENDS Integers, Sequences, FiniteSets, TLC

\* ------------------------------------------------------------------ bounds
MaxTime == 2
MaxCache == 2

\* ---------------------------------------------------------------- text ops
Tracks == {"actionable", "noteworthy"}

Null == "null"

SetMin(S) == CHOOSE x \in S : \A y \in S : x <= y
SetMax(S) == CHOOSE x \in S : \A y \in S : x >= y

IsSpace(c) == c \in {"sp", "nl"}

LowerChar(c) == CASE c = "A" -> "a" [] c = "B" -> "b" [] OTHER -> c

toLowerCase(s) == [i \in 1..Len(s) |-> LowerChar(s[i])]

\* String.prototype.replace(/\s+/g, " ")
collapseWhitespace(s) ==
  LET F[i \in 0..Len(s)] ==
        IF i = 0 THEN <<>>
        ELSE IF IsSpace(s[i])
             THEN IF i > 1 /\ IsSpace(s[i-1]) THEN F[i-1] ELSE Append(F[i-1], "sp")
             ELSE Append(F[i-1], s[i])
  IN F[Len(s)]

\* String.prototype.trim()
trim(s) ==
  LET idx == {i \in 1..Len(s) : ~IsSpace(s[i])}
  IN IF idx = {} THEN <<>> ELSE SubSeq(s, SetMin(idx), SetMax(idx))

\* String.prototype.split("\n")
splitLines(s) ==
  LET F[i \in 0..Len(s)] ==
        IF i = 0 THEN << <<>> >>
        ELSE IF s[i] = "nl"
             THEN Append(F[i-1], <<>>)
             ELSE [F[i-1] EXCEPT ![Len(F[i-1])] = Append(@, s[i])]
  IN F[Len(s)]

\* --------------------------------------------------------------- similarity
\* A similarity is the rational num/den; den = 0 is the not-a-number 0/0.
SimOne == [num |-> 1, den |-> 1]
SimZero == [num |-> 0, den |-> 1]

Abs(x) == IF x < 0 THEN -x ELSE x
Max2(x, y) == IF x >= y THEN x ELSE y

normalizeForSim(s) == trim(collapseWhitespace(toLowerCase(s)))

bigrams(n) == {<<n[i], n[i+1]>> : i \in 1..(Len(n) - 1)}

\* A similarity without the test for equal normalised strings.
similarityNoShortcut(a, b) ==
  LET la == Len(a)
      lb == Len(b)
      bigramsA == bigrams(normalizeForSim(a))
      bigramsB == bigrams(normalizeForSim(b))
  IN IF la = 0 /\ lb = 0 THEN SimOne
     ELSE IF la = 0 \/ lb = 0 THEN SimZero
     ELSE IF 2 * Abs(la - lb) > Max2(la, lb) THEN SimZero
     ELSE [num |-> 2 * Cardinality(bigramsA \cap bigramsB),
           den |-> Cardinality(bigramsA) + Cardinality(bigramsB)]

similarity(a, b) ==
  LET la == Len(a)
      lb == Len(b)
      na == normalizeForSim(a)
      nb == normalizeForSim(b)
      bigramsA == bigrams(na)
      bigramsB == bigrams(nb)
      intersection == Cardinality(bigramsA \cap bigramsB)
  IN IF la = 0 /\ lb = 0 THEN SimOne
     ELSE IF la = 0 \/ lb = 0 THEN SimZero
     ELSE IF 2 * Abs(la - lb) > Max2(la, lb) THEN SimZero
     ELSE IF na = nb THEN SimOne
     ELSE [num |-> 2 * intersection,
           den |-> Cardinality(bigramsA) + Cardinality(bigramsB)]

\* sim >= threshold, the threshold given in tenths; false for not-a-number
simAtLeast(sim, tenths) == sim.den > 0 /\ sim.num * 10 >= tenths * sim.den

\* ------------------------------------------------------------ configuration
DEFAULT_FILTER_CONFIG ==
  [allowedApps |-> <<>>, blockedWindows |-> <<"livepipe", "opencode", "screenpipe">>,
   minTextLength |-> 20]
DEFAULT_CAPTURE_CONFIG == [mode |-> "always", hotkeyHoldMs |-> 500]
DEFAULT_REVIEW_CONFIG ==
  [enabled |-> FALSE, provider |-> "", model |-> "", apiKey |-> "", failOpen |-> TRUE]
DEFAULT_NOTIFICATION_CONFIG == [desktop |-> TRUE, webhooks |-> <<>>]
DEFAULT_REMINDERS_CONFIG == [enabled |-> FALSE, list |-> "LivePipe"]
DEFAULT_NOTES_CONFIG == [enabled |-> FALSE, folder |-> "LivePipe"]
DEFAULT_DEDUP_CONFIG ==
  [actionableThreshold |-> 6, noteworthyThreshold |-> 8, lookbackDays |-> 7]
DEFAULT_OUTPUT_LANGUAGE == "zh-CN"

\* The value pipeConfigSchema yields for the empty object {}.
DefaultPipeConfig ==
  [filter |-> DEFAULT_FILTER_CONFIG,
   capture |-> DEFAULT_CAPTURE_CONFIG,
   review |-> DEFAULT_REVIEW_CONFIG,
   outputLanguage |-> DEFAULT_OUTPUT_LANGUAGE,
   notification |-> DEFAULT_NOTIFICATION_CONFIG,
   reminders |-> DEFAULT_REMINDERS_CONFIG,
   notes |-> DEFAULT_NOTES_CONFIG,
   dedup |-> DEFAULT_DEDUP_CONFIG]

VARIABLES
  currentConfig,     \* pipe-config.ts: the live PipeConfig
  configFile,        \* pipe.json as it is on disk
  fileChanged,       \* the file's mtime advanced since the watcher last looked
  watcherStarted,    \* pipe-config.ts: watcherStarted
  lastConfigEvent,   \* pipe-config.ts: lastConfigEvent
  lastReload,        \* history: the live config before the last watcher callback, and its outcome
  reviewConfig,      \* pipeline.ts: reviewConfig
  captureConfig,     \* pipeline.ts: captureConfig
  reviewProvider,    \* pipeline.ts: the cached review provider (the api key and model it was built from)
  now,               \* wall clock, in days
  rawCache,          \* deduplication.ts: actionableRawCache / noteworthyRawCache
  rawFile,           \* tasks-raw.md / memos-raw.md, as the chunks appended to them
  rawInitialized,    \* actionableRawInitialized / noteworthyRawInitialized
  checkLog,          \* history: the last dedup check and, when the call before it
                     \* checked the same content on the same track, that one's result
  notifyPc,          \* sendNotification: not called / awaiting Promise.all / returned
  notifyJobs,        \* sendNotification: the jobs it pushed, each pending or settled
  notifySummary,     \* sendNotification: the NotifyResult it returned
  isRunning,         \* pipeline.ts: isRunning
  pollLoops,         \* the number of runPipeline polling loops that are executing
  lastStart,         \* history: what the last startPipeline call did
  stopRequested,     \* scripts/dev.ts: exiting, set when the launcher is signalled to stop
  lastText,          \* pipeline.ts: lastText
  pc,                \* per pass (poll loop, hotkey trigger): the await it is suspended at
  cur,               \* per pass: the locals of processIntent
  passLog,           \* history, per pass: what the pass in progress (or the last one) did
  simA,              \* similarity: the argument a
  simB,              \* similarity: the argument b
  simReturned,       \* similarity: the call has returned
  simResult,         \* similarity: the value returned
  aggPc,             \* aggregateBatches: not started / awaiting the race / suspended
                     \* at a yield / returned
  currentBatch,      \* aggregateBatches: currentBatch.texts, each with its event
  flushTimer,        \* aggregateBatches: when the pending flush timer is due, or none
  nextRequests,      \* the upstream generator's queue of next() calls not yet answered
  upstreamDone,      \* the upstream generator has returned
  clock,             \* Date.now(), in milliseconds
  delivered,         \* history: the events the upstream handed out, and to which call
  yielded,           \* history: the batches aggregateBatches yielded
  chatPc,            \* gemini chat: not called / awaiting fetch / returned / threw
  attempt,           \* gemini chat: the loop variable attempt
  httpLog,           \* history: the responses to the requests of the call in progress
  chatResult,        \* gemini chat: what the call returned or threw
  chatLog,           \* history: the calls that ended, with their request counts
  jxaPc,             \* runJxaScript, per invocation: not called / awaiting the
                     \* execFile callback / resolved / rejected / threw
  jxaOutcome,        \* runJxaScript, per invocation: how it ended
  tmpDirs,           \* the temporary directories that exist, by invocation
  llmReply,          \* detectIntent: the text the local model answered with
  detectPc,          \* detectIntent: awaiting the model / returned
  detectResult,      \* detectIntent: the IntentResult returned, or null
  changeLog,         \* history: the last detectChange call and its decision
  running,           \* clipboard-monitor.ts: running
  clipStopRequested, \* clipboard-monitor.ts: stopRequested
  loopPromise,       \* clipboard-monitor.ts: loopPromise is not null
  sequence,          \* clipboard-monitor.ts: sequence
  lastClipboardText, \* clipboard-monitor.ts: lastClipboardText
  loopPc,            \* runClipboardLoop: where each activation of the loop is suspended
  clipLog            \* history: the last start/stop call and what it met

configRest == <<configFile, fileChanged, watcherStarted, lastConfigEvent, lastReload,
                reviewConfig, captureConfig, reviewProvider>>
dedupVars == <<rawCache, rawFile, rawInitialized, checkLog>>
notifyVars == <<notifyPc, notifyJobs, notifySummary>>
pipeVars == <<isRunning, pollLoops, lastStart, stopRequested, lastText, pc, cur, passLog>>
simVars == <<simA, simB, simReturned, simResult>>
batchVars == <<aggPc, currentBatch, flushTimer, nextRequests, upstreamDone, clock, delivered,
               yielded>>
chatVars == <<chatPc, attempt, httpLog, chatResult, chatLog>>
jxaVars == <<jxaPc, jxaOutcome, tmpDirs>>
classifyVars == <<llmReply, detectPc, detectResult>>
clipVars == <<running, clipStopRequested, loopPromise, sequence, lastClipboardText, loopPc,
              clipLog>>
moreVars == <<jxaVars, classifyVars, changeLog, clipVars>>
libVars == <<simVars, batchVars, chatVars, moreVars>>
vars == <<currentConfig, configRest, now, dedupVars, notifyVars, pipeVars, libVars>>

\* ------------------------------------------------------------- config store
\* A JSON value read from pipe.json: present or absent, with its value.
Given(v) == [present |-> TRUE, value |-> v]
AbsentStr == [present |-> FALSE, value |-> ""]
AbsentNum == [present |-> FALSE, value |-> 0]
AbsentBool == [present |-> FALSE, value |-> FALSE]
AbsentList == [present |-> FALSE, value |-> <<>>]

\* The value of an optional property that is not there.
Undefined == "undefined"

\* String.prototype.trim() on the strings a config may hold.
trimStr(s) ==
  CASE s = " gemini " -> "gemini"
    [] s = " Work " -> "Work"
    [] s = "   " -> ""
    [] OTHER -> s

NoRawFilter == [allowedApps |-> AbsentList, blockedWindows |-> AbsentList,
                minTextLength |-> AbsentNum]
NoRawReminders == [enabled |-> AbsentBool, list |-> AbsentStr]
NoRawNotes == [enabled |-> AbsentBool, folder |-> AbsentStr]
NoRawCapture == [mode |-> AbsentStr, hotkeyHoldMs |-> AbsentNum]
NoRawReview == [enabled |-> AbsentBool, provider |-> AbsentStr, model |-> AbsentStr,
                apiKey |-> AbsentStr, failOpen |-> AbsentBool]

NoRawNotification == [desktop |-> AbsentBool, webhooks |-> AbsentList]
NoRawDedup == [actionableThreshold |-> AbsentNum, noteworthyThreshold |-> AbsentNum,
               lookbackDays |-> AbsentNum]

\* The text "{}".
EmptyObject ==
  [filter |-> NoRawFilter, capture |-> NoRawCapture, review |-> NoRawReview,
   outputLanguage |-> AbsentStr, notification |-> NoRawNotification,
   reminders |-> NoRawReminders, notes |-> NoRawNotes, dedup |-> NoRawDedup]

\* pipe.json on disk: validJson is false for text JSON.parse rejects.
JsonFile(obj) == [validJson |-> TRUE, obj |-> obj]
BrokenFile == [validJson |-> FALSE, obj |-> EmptyObject]

\* A field declared without .default(): an absent property is read as is.
orValue(raw, default) == raw.value

orDefault(raw, default) == IF raw.present THEN raw.value ELSE default

\* webhookSchema: the issues of one raw webhook, and its parsed value.
webhookIssues(w) ==
  (IF trimStr(w.url) = "" THEN {"notification.webhooks.url"} ELSE {})
  \cup (IF w.provider.present /\ w.provider.value \notin {"generic", "feishu", "telegram"}
        THEN {"notification.webhooks.provider"} ELSE {})
  \cup (IF orDefault(w.provider, "generic") = "telegram"
           /\ trimStr(orDefault(w.chatId, "")) = ""
        THEN {"notification.webhooks.chatId"} ELSE {})

\* A webhook parser that writes `enabled: raw.enabled || true`.
webhookDataOrTrue(w) ==
  [url |-> trimStr(w.url), enabled |-> TRUE,
   provider |-> orDefault(w.provider, "generic"),
   chatId |-> IF w.chatId.present THEN trimStr(w.chatId.value) ELSE Undefined]

webhookData(w) ==
  [url |-> trimStr(w.url), enabled |-> orDefault(w.enabled, TRUE),
   provider |-> orDefault(w.provider, "generic"),
   chatId |-> IF w.chatId.present THEN trimStr(w.chatId.value) ELSE Undefined]

\* pipeConfigSchema: the issues (as field paths) safeParse reports for obj.
schemaIssues(obj) ==
  LET review == [enabled |-> orDefault(obj.review.enabled, DEFAULT_REVIEW_CONFIG.enabled),
                 provider |->
                   trimStr(orDefault(obj.review.provider, DEFAULT_REVIEW_CONFIG.provider)),
                 model |-> trimStr(orDefault(obj.review.model, DEFAULT_REVIEW_CONFIG.model)),
                 apiKey |-> orDefault(obj.review.apiKey, DEFAULT_REVIEW_CONFIG.apiKey)]
  IN  (IF obj.filter.minTextLength.present /\ obj.filter.minTextLength.value < 1
       THEN {"filter.minTextLength"} ELSE {})
      \cup (IF obj.capture.mode.present
               /\ obj.capture.mode.value \notin {"always", "hotkey", "both"}
            THEN {"capture.mode"} ELSE {})
      \cup (IF obj.capture.hotkeyHoldMs.present /\ obj.capture.hotkeyHoldMs.value < 1
            THEN {"capture.hotkeyHoldMs"} ELSE {})
      \cup (IF review.enabled /\ review.provider = "" THEN {"review.provider"} ELSE {})
      \cup (IF review.enabled /\ review.model = "" THEN {"review.model"} ELSE {})
      \cup (IF review.enabled /\ review.apiKey = "" THEN {"review.apiKey"} ELSE {})
      \cup (IF obj.outputLanguage.present /\ trimStr(obj.outputLanguage.value) = ""
            THEN {"outputLanguage"} ELSE {})
      \cup UNION {webhookIssues(obj.notification.webhooks.value[i]) :
                    i \in 1..Len(obj.notification.webhooks.value)}
      \cup (IF obj.reminders.list.present /\ trimStr(obj.reminders.list.value) = ""
            THEN {"reminders.list"} ELSE {})
      \cup (IF obj.notes.folder.present /\ trimStr(obj.notes.folder.value) = ""
            THEN {"notes.folder"} ELSE {})
      \cup (IF obj.dedup.actionableThreshold.present
               /\ obj.dedup.actionableThreshold.value \notin 0..10
            THEN {"dedup.actionableThreshold"} ELSE {})
      \cup (IF obj.dedup.noteworthyThreshold.present
               /\ obj.dedup.noteworthyThreshold.value \notin 0..10
            THEN {"dedup.noteworthyThreshold"} ELSE {})
      \cup (IF obj.dedup.lookbackDays.present /\ obj.dedup.lookbackDays.value < 1
            THEN {"dedup.lookbackDays"} ELSE {})

\* pipeConfigSchema: the parsed value, every absent field at its default.
schemaData(obj) ==
  [DefaultPipeConfig EXCEPT
     !.filter = [allowedApps |->
                   orDefault(obj.filter.allowedApps, DEFAULT_FILTER_CONFIG.allowedApps),
                 blockedWindows |->
                   orDefault(obj.filter.blockedWindows, DEFAULT_FILTER_CONFIG.blockedWindows),
                 minTextLength |->
                   orDefault(obj.filter.minTextLength, DEFAULT_FILTER_CONFIG.minTextLength)],
     !.capture = [mode |-> orDefault(obj.capture.mode, DEFAULT_CAPTURE_CONFIG.mode),
                  hotkeyHoldMs |->
                    orDefault(obj.capture.hotkeyHoldMs, DEFAULT_CAPTURE_CONFIG.hotkeyHoldMs)],
     !.review = [enabled |-> orDefault(obj.review.enabled, DEFAULT_REVIEW_CONFIG.enabled),
                 provider |->
                   trimStr(orDefault(obj.review.provider, DEFAULT_REVIEW_CONFIG.provider)),
                 model |-> trimStr(orDefault(obj.review.model, DEFAULT_REVIEW_CONFIG.model)),
                 apiKey |-> orDefault(obj.review.apiKey, DEFAULT_REVIEW_CONFIG.apiKey),
                 failOpen |-> orDefault(obj.review.failOpen, DEFAULT_REVIEW_CONFIG.failOpen)],
     !.outputLanguage = trimStr(orDefault(obj.outputLanguage, DEFAULT_OUTPUT_LANGUAGE)),
     !.reminders =
       [enabled |-> orDefault(obj.reminders.enabled, DEFAULT_REMINDERS_CONFIG.enabled),
        list |-> trimStr(orDefault(obj.reminders.list, DEFAULT_REMINDERS_CONFIG.list))],
     !.notes =
       [enabled |-> orDefault(obj.notes.enabled, DEFAULT_NOTES_CONFIG.enabled),
        folder |-> trimStr(orDefault(obj.notes.folder, DEFAULT_NOTES_CONFIG.folder))],
     !.notification =
       [desktop |-> orDefault(obj.notification.desktop, DEFAULT_NOTIFICATION_CONFIG.desktop),
        webhooks |-> IF obj.notification.webhooks.present
                     THEN [i \in 1..Len(obj.notification.webhooks.value) |->
                             webhookData(obj.notification.webhooks.value[i])]
                     ELSE DEFAULT_NOTIFICATION_CONFIG.webhooks],
     !.dedup =
       [actionableThreshold |->
          orDefault(obj.dedup.actionableThreshold, DEFAULT_DEDUP_CONFIG.actionableThreshold),
        noteworthyThreshold |->
          orDefault(obj.dedup.noteworthyThreshold, DEFAULT_DEDUP_CONFIG.noteworthyThreshold),
        lookbackDays |-> orDefault(obj.dedup.lookbackDays, DEFAULT_DEDUP_CONFIG.lookbackDays)]]

\* A parser that fills the defaults but reports no issue.
parsePipeConfigTextUnchecked(file) ==
  IF ~file.validJson THEN [ok |-> FALSE, issues |-> {"(root)"}, config |-> DefaultPipeConfig]
  ELSE [ok |-> TRUE, issues |-> {}, config |-> schemaData(file.obj)]

\* parsePipeConfigTextOrThrow: ok is false where the code throws
\* PipeConfigValidationError(issues).
parsePipeConfigTextOrThrow(file) ==
  IF ~file.validJson THEN [ok |-> FALSE, issues |-> {"(root)"}, config |-> DefaultPipeConfig]
  ELSE IF schemaIssues(file.obj) # {}
       THEN [ok |-> FALSE, issues |-> schemaIssues(file.obj), config |-> DefaultPipeConfig]
       ELSE [ok |-> TRUE, issues |-> {}, config |-> schemaData(file.obj)]

HOT_RELOAD_FIELDS ==
  {"filter.allowedApps", "filter.blockedWindows", "filter.minTextLength", "review.enabled",
   "review.provider", "review.model", "review.apiKey", "review.failOpen", "outputLanguage",
   "notification.desktop", "notification.webhooks", "reminders.enabled", "reminders.list",
   "notes.enabled", "notes.folder", "dedup.actionableThreshold",
   "dedup.noteworthyThreshold", "dedup.lookbackDays"}

RESTART_REQUIRED_FIELDS == {"capture.mode", "capture.hotkeyHoldMs"}

\* getComparableFields / getChangedFields: the tracked paths whose values differ.
getChangedFields(previous, next) ==
  (IF previous.filter.allowedApps # next.filter.allowedApps
   THEN {"filter.allowedApps"} ELSE {})
  \cup (IF previous.filter.blockedWindows # next.filter.blockedWindows
        THEN {"filter.blockedWindows"} ELSE {})
  \cup (IF previous.filter.minTextLength # next.filter.minTextLength
        THEN {"filter.minTextLength"} ELSE {})
  \cup (IF previous.capture.mode # next.capture.mode THEN {"capture.mode"} ELSE {})
  \cup (IF previous.capture.hotkeyHoldMs # next.capture.hotkeyHoldMs
        THEN {"capture.hotkeyHoldMs"} ELSE {})
  \cup (IF previous.review.enabled # next.review.enabled THEN {"review.enabled"} ELSE {})
  \cup (IF previous.review.provider # next.review.provider THEN {"review.provider"} ELSE {})
  \cup (IF previous.review.model # next.review.model THEN {"review.model"} ELSE {})
  \cup (IF previous.review.apiKey # next.review.apiKey THEN {"review.apiKey"} ELSE {})
  \cup (IF previous.review.failOpen # next.review.failOpen THEN {"review.failOpen"} ELSE {})
  \cup (IF previous.outputLanguage # next.outputLanguage THEN {"outputLanguage"} ELSE {})
  \cup (IF previous.notification.desktop # next.notification.desktop
        THEN {"notification.desktop"} ELSE {})
  \cup (IF previous.notification.webhooks # next.notification.webhooks
        THEN {"notification.webhooks"} ELSE {})
  \cup (IF previous.reminders.enabled # next.reminders.enabled
        THEN {"reminders.enabled"} ELSE {})
  \cup (IF previous.reminders.list # next.reminders.list THEN {"reminders.list"} ELSE {})
  \cup (IF previous.notes.enabled # next.notes.enabled THEN {"notes.enabled"} ELSE {})
  \cup (IF previous.notes.folder # next.notes.folder THEN {"notes.folder"} ELSE {})
  \cup (IF previous.dedup.actionableThreshold # next.dedup.actionableThreshold
        THEN {"dedup.actionableThreshold"} ELSE {})
  \cup (IF previous.dedup.noteworthyThreshold # next.dedup.noteworthyThreshold
        THEN {"dedup.noteworthyThreshold"} ELSE {})
  \cup (IF previous.dedup.lookbackDays # next.dedup.lookbackDays
        THEN {"dedup.lookbackDays"} ELSE {})

NoEvent == [type |-> "none", changedFields |-> {}, hotReloaded |-> {},
            restartRequired |-> {}, issues |-> {}]

\* A variant whose event type is driven by the hot-reload class.
buildChangeEventHotFirst(changedFields, issues) ==
  LET hotReloaded == changedFields \cap HOT_RELOAD_FIELDS
      restartRequired == changedFields \cap RESTART_REQUIRED_FIELDS
  IN IF issues # {}
     THEN [type |-> "validation-error", changedFields |-> changedFields,
           hotReloaded |-> {}, restartRequired |-> {}, issues |-> issues]
     ELSE [type |-> IF hotReloaded # {} THEN "hot-reloaded" ELSE "restart-required",
           changedFields |-> changedFields, hotReloaded |-> hotReloaded,
           restartRequired |-> restartRequired, issues |-> {}]

buildChangeEvent(changedFields, issues) ==
  LET hotReloaded == changedFields \cap HOT_RELOAD_FIELDS
      restartRequired == changedFields \cap RESTART_REQUIRED_FIELDS
  IN IF issues # {}
     THEN [type |-> "validation-error", changedFields |-> changedFields,
           hotReloaded |-> {}, restartRequired |-> {}, issues |-> issues]
     ELSE [type |-> IF restartRequired # {} THEN "restart-required" ELSE "hot-reloaded",
           changedFields |-> changedFields, hotReloaded |-> hotReloaded,
           restartRequired |-> restartRequired, issues |-> {}]

NoProvider == [apiKey |-> "", model |-> ""]

\* An applyRuntimeConfig that never drops the cached review provider.
applyRuntimeConfigKeepingProvider(config, resetReviewProvider, provider) ==
  [reviewConfig |-> config.review,
   captureConfig |-> config.capture,
   reviewProvider |-> provider]

\* pipeline.ts applyRuntimeConfig, as the new values of the module variables
\* it assigns.
applyRuntimeConfig(config, resetReviewProvider, provider) ==
  [reviewConfig |-> config.review,
   captureConfig |-> config.capture,
   reviewProvider |-> IF resetReviewProvider THEN NoProvider ELSE provider]

NoReload == [outcome |-> "none", before |-> DefaultPipeConfig]

\* The user saves pipe.json with new content.
EditConfigFile(files) ==
  /\ \E f \in files :
       /\ f # configFile
       /\ configFile' = f
  /\ fileChanged' = TRUE
  /\ UNCHANGED <<currentConfig, watcherStarted, lastConfigEvent, lastReload,
                 reviewConfig, captureConfig, reviewProvider>>

\* setupConfigWatcher -> startPipeConfigWatcher
StartPipeConfigWatcher ==
  /\ ~watcherStarted
  /\ watcherStarted' = TRUE
  /\ fileChanged' = FALSE
  /\ UNCHANGED <<currentConfig, configFile, lastConfigEvent, lastReload,
                 reviewConfig, captureConfig, reviewProvider>>

\* The body of the watchFile callback once the mtime is seen to differ, with
\* the onEvent handler that setupConfigWatcher registered; file is what
\* readAndParsePipeConfigOrThrow reads.
ReloadFrom(file) ==
  \E parsed \in {parsePipeConfigTextOrThrow(file)} :
    IF ~parsed.ok
    THEN /\ lastConfigEvent' = buildChangeEvent({}, parsed.issues)
         /\ lastReload' = [outcome |-> "invalid", before |-> currentConfig]
         /\ UNCHANGED <<currentConfig, reviewConfig, captureConfig, reviewProvider>>
    ELSE \E changedFields \in {getChangedFields(currentConfig, parsed.config)} :
           /\ currentConfig' = parsed.config
           /\ IF changedFields = {}
              THEN /\ lastReload' = [outcome |-> "unchanged", before |-> currentConfig]
                   /\ UNCHANGED <<lastConfigEvent, reviewConfig, captureConfig,
                                  reviewProvider>>
              ELSE /\ lastConfigEvent' = buildChangeEvent(changedFields, {})
                   /\ lastReload' = [outcome |-> "applied", before |-> currentConfig]
                   /\ \E applied \in {applyRuntimeConfig(
                                        parsed.config,
                                        \E path \in changedFields :
                                          path \in {"review.enabled", "review.provider",
                                                    "review.model", "review.apiKey",
                                                    "review.failOpen"},
                                        reviewProvider)} :
                        /\ reviewConfig' = applied.reviewConfig
                        /\ captureConfig' = applied.captureConfig
                        /\ reviewProvider' = applied.reviewProvider

ConfigFileChanged ==
  /\ watcherStarted
  /\ fileChanged
  /\ fileChanged' = FALSE
  /\ UNCHANGED <<configFile, watcherStarted>>
  /\ ReloadFrom(configFile)

\* The state after module load: loadPipeConfigOrThrow succeeded on file and
\* applyRuntimeConfig(config, {resetReviewProvider: true}) ran.
InitConfig(files, started) ==
  /\ configFile \in {f \in files : parsePipeConfigTextOrThrow(f).ok}
  /\ currentConfig = parsePipeConfigTextOrThrow(configFile).config
  /\ fileChanged = FALSE
  /\ watcherStarted = started
  /\ lastConfigEvent = NoEvent
  /\ lastReload = NoReload
  /\ reviewConfig = currentConfig.review
  /\ captureConfig = currentConfig.capture
  /\ reviewProvider = NoProvider

\* ---------------------------------------------- config store under edits
\* What the user may save as pipe.json: every combination of a capture, a
\* filter and a review section (absent, valid or invalid), and a file that
\* is not JSON.
RawCaptures ==
  {NoRawCapture,
   [NoRawCapture EXCEPT !.mode = Given("hotkey")],
   [NoRawCapture EXCEPT !.hotkeyHoldMs = Given(300)],
   [NoRawCapture EXCEPT !.mode = Given("sometimes")]}
RawFilters ==
  {NoRawFilter, [NoRawFilter EXCEPT !.minTextLength = Given(10)]}
RawReviews ==
  {NoRawReview,
   [NoRawReview EXCEPT !.failOpen = Given(FALSE)],
   [NoRawReview EXCEPT !.enabled = Given(TRUE)]}
ConfigFiles ==
  {JsonFile([EmptyObject EXCEPT !.capture = c, !.filter = f, !.review = r]) :
     c \in RawCaptures, f \in RawFilters, r \in RawReviews}
  \cup {BrokenFile}

otherThanConfig == <<now, dedupVars, notifyVars, pipeVars, libVars>>

\* Values for the variables a specification leaves alone.
EmptyTracks == [t \in Tracks |-> <<>>]

NoCheck ==
  [mode |-> "none", content |-> <<>>, outcome |-> "none", similarBefore |-> FALSE,
   similarity |-> [num |-> 0, den |-> 0], threshold |-> 0,
   prevOutcome |-> "none", prevSimilarBefore |-> FALSE]

InitDedupStore ==
  /\ rawCache = EmptyTracks
  /\ rawFile = EmptyTracks
  /\ rawInitialized = [t \in Tracks |-> FALSE]
  /\ checkLog = NoCheck

NotifyIdle ==
  /\ notifyPc = "idle"
  /\ notifyJobs = <<>>
  /\ notifySummary = [desktop |-> FALSE, webhooks |-> <<>>, errors |-> <<>>]

PipeIdle ==
  /\ isRunning = FALSE
  /\ pollLoops = 0
  /\ lastStart = "none"
  /\ stopRequested = FALSE
  /\ lastText = <<>>
  /\ pc = <<>>
  /\ cur = <<>>
  /\ passLog = <<>>

NoTimer == -1

SimIdle ==
  /\ simA = <<>>
  /\ simB = <<>>
  /\ simReturned = FALSE
  /\ simResult = [num |-> 0, den |-> 0]

BatchIdle ==
  /\ aggPc = "idle"
  /\ currentBatch = <<>>
  /\ flushTimer = NoTimer
  /\ nextRequests = <<>>
  /\ upstreamDone = FALSE
  /\ clock = 0
  /\ delivered = <<>>
  /\ yielded = <<>>

ChatIdle ==
  /\ chatPc = "idle"
  /\ attempt = 0
  /\ httpLog = <<>>
  /\ chatResult = "none"
  /\ chatLog = <<>>

MaxInvocations == 3

Invocations == 1..MaxInvocations

JxaIdle ==
  /\ jxaPc = [i \in Invocations |-> "idle"]
  /\ jxaOutcome = [i \in Invocations |-> "none"]
  /\ tmpDirs = {}

\* The IntentResult detectIntent builds for an empty answer and for garbled
\* content; content is a sequence of words, due_time null or a string.
AllFalse ==
  [actionable |-> FALSE, noteworthy |-> FALSE, content |-> <<>>, due_time |-> Null,
   urgent |-> FALSE]

NoReply ==
  [shape |-> "none", actionable |-> "absent", noteworthy |-> "absent", content |-> <<>>,
   due |-> "null", urgent |-> "absent"]
NoResult ==
  [returned |-> "none", intent |-> AllFalse, normalizeRan |-> FALSE,
   extracted |-> AllFalse, normalized |-> AllFalse]

ClassifyIdle ==
  /\ llmReply = NoReply
  /\ detectPc = "idle"
  /\ detectResult = NoResult

NoChange == [text |-> <<>>, before |-> <<>>, changed |-> FALSE, reason |-> "none"]

ChangeIdle == changeLog = NoChange

\* Activations of runClipboardLoop that may exist side by side.
ClipLoops == {1, 2}

NoClipCall == [lastCall |-> "none", stopWasPending |-> FALSE,
               stoppedAt |-> [i \in ClipLoops |-> "none"]]

\* clipboard-monitor.ts after module load.
ClipIdle ==
  /\ running = FALSE
  /\ clipStopRequested = FALSE
  /\ loopPromise = FALSE
  /\ sequence = 0
  /\ lastClipboardText = ""
  /\ loopPc = [i \in ClipLoops |-> "none"]
  /\ clipLog = NoClipCall

MoreIdle == JxaIdle /\ ClassifyIdle /\ ChangeIdle /\ ClipIdle

LibIdle == SimIdle /\ BatchIdle /\ ChatIdle /\ MoreIdle

InitConfigStore ==
  /\ InitConfig(ConfigFiles, FALSE)
  /\ now = 0
  /\ InitDedupStore
  /\ NotifyIdle
  /\ PipeIdle
  /\ LibIdle

CEdit == EditConfigFile(ConfigFiles) /\ UNCHANGED otherThanConfig
CStartWatcher == StartPipeConfigWatcher /\ UNCHANGED otherThanConfig
CChanged == ConfigFileChanged /\ UNCHANGED otherThanConfig

NextConfig == CEdit \/ CStartWatcher \/ CChanged

SpecConfig == InitConfigStore /\ [][NextConfig]_vars

\* pipeConfigSchema, as a predicate on a PipeConfig value: every field is
\* defined and inside the range the schema accepts.
IsSchemaValid(config) ==
  /\ DOMAIN config = {"filter", "capture", "review", "outputLanguage", "notification",
                      "reminders", "notes", "dedup"}
  /\ DOMAIN config.filter = {"allowedApps", "blockedWindows", "minTextLength"}
  /\ config.filter.minTextLength >= 1
  /\ DOMAIN config.capture = {"mode", "hotkeyHoldMs"}
  /\ config.capture.mode \in {"always", "hotkey", "both"}
  /\ config.capture.hotkeyHoldMs >= 1
  /\ DOMAIN config.review = {"enabled", "provider", "model", "apiKey", "failOpen"}
  /\ config.review.enabled \in BOOLEAN
  /\ config.review.failOpen \in BOOLEAN
  /\ config.review.enabled =>
       /\ trimStr(config.review.provider) # ""
       /\ trimStr(config.review.model) # ""
       /\ config.review.apiKey # ""
  /\ trimStr(config.outputLanguage) # ""
  /\ DOMAIN config.notification = {"desktop", "webhooks"}
  /\ config.notification.desktop \in BOOLEAN
  /\ \A i \in 1..Len(config.notification.webhooks) :
       LET w == config.notification.webhooks[i]
       IN /\ trimStr(w.url) # ""
          /\ w.enabled \in BOOLEAN
          /\ w.provider \in {"generic", "feishu", "telegram"}
          /\ w.provider = "telegram" =>
               (w.chatId # Undefined /\ trimStr(w.chatId) # "")
  /\ DOMAIN config.reminders = {"enabled", "list"}
  /\ config.reminders.enabled \in BOOLEAN
  /\ trimStr(config.reminders.list) # ""
  /\ DOMAIN config.notes = {"enabled", "folder"}
  /\ config.notes.enabled \in BOOLEAN
  /\ trimStr(config.notes.folder) # ""
  /\ DOMAIN config.dedup = {"actionableThreshold", "noteworthyThreshold", "lookbackDays"}
  /\ config.dedup.actionableThreshold \in 0..10
  /\ config.dedup.noteworthyThreshold \in 0..10
  /\ config.dedup.lookbackDays >= 1

\* C3: the live configuration is always a schema-valid, fully defaulted
\* value, and a watcher callback that finds the file invalid leaves the live
\* configuration identical to what it was before the change.
C3_LiveConfigValid ==
  /\ IsSchemaValid(currentConfig)
  /\ lastReload.outcome = "invalid" => currentConfig = lastReload.before

C3_Witness ==
  /\ lastReload.outcome = "invalid"
  /\ lastConfigEvent.type = "validation-error"
  /\ ~fileChanged
  /\ ~parsePipeConfigTextOrThrow(configFile).ok
  /\ currentConfig # DefaultPipeConfig

restartFieldsDiffer(previous, next) ==
  \/ previous.capture.mode # next.capture.mode
  \/ previous.capture.hotkeyHoldMs # next.capture.hotkeyHoldMs

hotFieldsDiffer(previous, next) ==
  \/ previous.filter # next.filter
  \/ previous.review # next.review
  \/ previous.outputLanguage # next.outputLanguage
  \/ previous.notification # next.notification
  \/ previous.reminders # next.reminders
  \/ previous.notes # next.notes
  \/ previous.dedup # next.dedup

\* C4: after a reload that changed a tracked field, the event type is
\* restart-required exactly when capture.mode or capture.hotkeyHoldMs
\* changed, whether or not hot-reloadable fields changed too, and
\* hot-reloaded exactly when only hot-reloadable fields changed.
C4_EventType ==
  lastReload.outcome = "applied" =>
    /\ lastConfigEvent.type = "restart-required"
         <=> restartFieldsDiffer(lastReload.before, currentConfig)
    /\ lastConfigEvent.type = "hot-reloaded"
         <=> /\ ~restartFieldsDiffer(lastReload.before, currentConfig)
             /\ hotFieldsDiffer(lastReload.before, currentConfig)

C4_Witness ==
  /\ lastReload.outcome = "applied"
  /\ lastConfigEvent.type = "restart-required"
  /\ restartFieldsDiffer(lastReload.before, currentConfig)
  /\ hotFieldsDiffer(lastReload.before, currentConfig)

\* -------------------------------------------------------------- dedup store
formatRawLine(entry) == [text |-> entry.content, detected |-> entry.detected]

\* One physical line of a raw file, as the list of entries it yields (none
\* or one).  stamp is the value after "detected:", NoStamp when the line
\* does not end in " | detected:<stamp>".
NoStamp == -1

parseRawLine(line, stamp) ==
  IF stamp = NoStamp \/ line = <<>> THEN <<>>
  ELSE << [content |-> trim(line), detected |-> stamp] >>

\* The entries parsed from one appended chunk: the chunk's text is split at
\* line feeds and only its last physical line carries the detected suffix.
parseChunk(chunk) ==
  LET lines == splitLines(chunk.text)
      F[i \in 0..Len(lines)] ==
        IF i = 0 THEN <<>>
        ELSE F[i-1] \o parseRawLine(trim(lines[i]),
                                    IF i = Len(lines) THEN chunk.detected ELSE NoStamp)
  IN F[Len(lines)]

loadRawEntries(file) ==
  LET F[i \in 0..Len(file)] ==
        IF i = 0 THEN <<>> ELSE F[i-1] \o parseChunk(file[i])
  IN F[Len(file)]

appendRawToFile(file, entry) == Append(file, formatRawLine(entry))

getDedupRuntimeConfig(config) == config.dedup

thresholdOf(dedupConfig, mode) ==
  IF mode = "actionable" THEN dedupConfig.actionableThreshold
  ELSE dedupConfig.noteworthyThreshold

\* A scan that compares every entry, whatever its age.
matchingEntriesNoWindow(cache, content, threshold, cutoff) ==
  {i \in 1..Len(cache) :
     simAtLeast(similarity(content, cache[i].content), threshold)}

\* A scan that takes an entry for a match only above the threshold.
matchingEntriesStrict(cache, content, threshold, cutoff) ==
  {i \in 1..Len(cache) :
     LET sim == similarity(content, cache[i].content)
     IN /\ ~(cache[i].detected < cutoff)
        /\ sim.den > 0
        /\ sim.num * 10 > threshold * sim.den}

\* Indices of the cache entries inside the lookback window that match content.
matchingEntries(cache, content, threshold, cutoff) ==
  {i \in 1..Len(cache) :
     /\ ~(cache[i].detected < cutoff)
     /\ simAtLeast(similarity(content, cache[i].content), threshold)}

\* The similarity a check reports: that of the first matching entry.
NoSim == [num |-> 0, den |-> 0]
reportedSimilarity(cache, content, hits) ==
  IF hits = {} THEN NoSim ELSE similarity(content, cache[SetMin(hits)].content)

\* A variant that appends to the log first and pushes only when the append
\* returned.
checkRawCacheWriteFirst(cache, file, content, threshold, lookbackDays, nowT, writeOk) ==
  LET cutoff == nowT - lookbackDays
      hits == matchingEntries(cache, content, threshold, cutoff)
      entry == [content |-> content, detected |-> nowT]
  IN IF hits # {}
     THEN [outcome |-> "duplicate", cache |-> cache, file |-> file,
           similarity |-> reportedSimilarity(cache, content, hits)]
     ELSE [outcome |-> IF writeOk THEN "passed" ELSE "threw",
           similarity |-> NoSim,
           cache |-> IF writeOk THEN Append(cache, entry) ELSE cache,
           file |-> IF writeOk THEN appendRawToFile(file, entry) ELSE file]

\* A variant that scans the cache but forgets cache.push(entry).
checkRawCacheNoPush(cache, file, content, threshold, lookbackDays, nowT, writeOk) ==
  LET cutoff == nowT - lookbackDays
      hits == matchingEntries(cache, content, threshold, cutoff)
      entry == [content |-> content, detected |-> nowT]
  IN IF hits # {}
     THEN [outcome |-> "duplicate", cache |-> cache, file |-> file,
           similarity |-> reportedSimilarity(cache, content, hits)]
     ELSE [outcome |-> IF writeOk THEN "passed" ELSE "threw",
           similarity |-> NoSim,
           cache |-> cache,
           file |-> IF writeOk THEN appendRawToFile(file, entry) ELSE file]

\* outcome "threw": appendRawToFile raised after the entry was cached.
checkRawCache(cache, file, content, threshold, lookbackDays, nowT, writeOk) ==
  LET cutoff == nowT - lookbackDays
      hits == matchingEntries(cache, content, threshold, cutoff)
      entry == [content |-> content, detected |-> nowT]
  IN IF hits # {}
     THEN [outcome |-> "duplicate", cache |-> cache, file |-> file,
           similarity |-> reportedSimilarity(cache, content, hits)]
     ELSE [outcome |-> IF writeOk THEN "passed" ELSE "threw",
           similarity |-> NoSim,
           cache |-> Append(cache, entry),
           file |-> IF writeOk THEN appendRawToFile(file, entry) ELSE file]

\* checkActionableDedup / checkNoteworthyDedup for an intent whose flag for
\* the track is set: lazy load, then checkRawCache.
checkDedup(cache, file, initialized, config, mode, content, nowT, writeOk) ==
  LET loaded == IF initialized THEN cache ELSE loadRawEntries(file)
      dc == getDedupRuntimeConfig(config)
  IN checkRawCache(loaded, file, content, thresholdOf(dc, mode),
                   dc.lookbackDays, nowT, writeOk)

\* ------------------------------------------------ dedup store as called API
\* Contents presented to the store: a two-line content and two
\* near-duplicates; TextAbcd and TextAbce (Dice 4/6) are near-duplicates too.
TextAbcd == <<"a", "b", "c", "d">>
TextAbce == <<"a", "b", "c", "e">>
TextTwoLines == <<"a", "b", "nl", "c">>
\* "ji de ming tian jiao bao gao" and "ji de ming tian ti jiao bao gao", one
\* token per character: five common bigrams of six and seven (Dice 10/13).
TextReport == <<"ji", "de", "ming", "tian", "jiao", "bao", "gao">>
TextSubmitReport == <<"ji", "de", "ming", "tian", "ti", "jiao", "bao", "gao">>
DedupContents == {TextTwoLines, TextReport, TextSubmitReport}

TotalCached(cache) == Len(cache["actionable"]) + Len(cache["noteworthy"])

LogCheck(log, mode, content, outcome, similarBefore, sim, threshold) ==
  LET repeat == log.mode = mode /\ log.content = content
  IN [mode |-> mode, content |-> content, outcome |-> outcome,
      similarBefore |-> similarBefore, similarity |-> sim, threshold |-> threshold,
      prevOutcome |-> IF repeat THEN log.outcome ELSE "none",
      prevSimilarBefore |-> IF repeat THEN log.similarBefore ELSE FALSE]

\* pipe.json variants that set the dedup section.
DedupFiles ==
  {JsonFile([EmptyObject EXCEPT !.dedup = [NoRawDedup EXCEPT !.lookbackDays = Given(1)]]),
   JsonFile([EmptyObject EXCEPT
               !.dedup = [NoRawDedup EXCEPT !.actionableThreshold = Given(10),
                                            !.noteworthyThreshold = Given(0)]])}

InitDedup ==
  /\ InitConfig(DedupFiles, TRUE)
  /\ now = 0
  /\ InitDedupStore
  /\ NotifyIdle
  /\ PipeIdle
  /\ LibIdle

\* checkActionableDedup(intent) / checkNoteworthyDedup(intent), flag set.
DedupCheck(mode, content, writeOk) ==
  \E r \in {checkDedup(rawCache[mode], rawFile[mode], rawInitialized[mode],
                       currentConfig, mode, content, now, writeOk)} :
  \E loaded \in {IF rawInitialized[mode] THEN rawCache[mode]
                 ELSE loadRawEntries(rawFile[mode])} :
    LET dc == currentConfig.dedup
        similarBefore ==
          \E i \in 1..Len(loaded) :
            /\ loaded[i].detected >= now - dc.lookbackDays
            /\ simAtLeast(similarity(content, loaded[i].content), thresholdOf(dc, mode))
    IN /\ TotalCached([rawCache EXCEPT ![mode] = r.cache]) <= MaxCache
       /\ rawCache' = [rawCache EXCEPT ![mode] = r.cache]
       /\ rawFile' = [rawFile EXCEPT ![mode] = r.file]
       /\ rawInitialized' = [rawInitialized EXCEPT ![mode] = TRUE]
       /\ checkLog' = LogCheck(checkLog, mode, content, r.outcome, similarBefore,
                               r.similarity, thresholdOf(dc, mode))
       /\ UNCHANGED <<currentConfig, now, configRest, notifyVars, pipeVars, libVars>>

DCheck == \E mode \in Tracks, content \in DedupContents, writeOk \in BOOLEAN :
            DedupCheck(mode, content, writeOk)

\* loadRawFromFile() / loadMemoRawFromFile()
LoadRaw(mode) ==
  /\ rawCache' = [rawCache EXCEPT ![mode] = loadRawEntries(rawFile[mode])]
  /\ rawInitialized' = [rawInitialized EXCEPT ![mode] = TRUE]
  /\ checkLog' = NoCheck
  /\ UNCHANGED <<currentConfig, now, rawFile, configRest, notifyVars, pipeVars, libVars>>

DLoad == \E mode \in Tracks : LoadRaw(mode)

\* The user saves another pipe.json and the watcher callback reloads it;
\* getDedupRuntimeConfig reads the live config anew at the next check.
DSetConfig ==
  /\ \E f \in DedupFiles :
       /\ f # configFile
       /\ configFile' = f
       /\ ReloadFrom(f)
  /\ checkLog' = NoCheck
  /\ UNCHANGED <<fileChanged, watcherStarted>>
  /\ UNCHANGED <<now, rawCache, rawFile, rawInitialized, notifyVars, pipeVars, libVars>>

DTick ==
  /\ now < MaxTime
  /\ now' = now + 1
  /\ checkLog' = NoCheck
  /\ UNCHANGED <<currentConfig, rawCache, rawFile, rawInitialized, configRest, notifyVars,
                 pipeVars, libVars>>

NextDedup == DCheck \/ DLoad \/ DSetConfig \/ DTick

SpecDedup == InitDedup /\ [][NextDedup]_vars

\* C1: two immediately successive checks of the same content on the same
\* track, the first made when no cached entry inside the lookback window is
\* similar to it: the second never passes, and the first, when it returns,
\* returns passed=true.
C1_SuccessiveChecks ==
  (checkLog.prevOutcome # "none" /\ ~checkLog.prevSimilarBefore)
  => /\ checkLog.prevOutcome \in {"passed", "threw"}
     /\ checkLog.outcome = "duplicate"

C1_Witness ==
  /\ checkLog.prevOutcome = "passed"
  /\ ~checkLog.prevSimilarBefore
  /\ checkLog.outcome = "duplicate"

\* ------------------------------------------------------ notification fan-out
\* What one delivery attempt meets: the osascript child, or the webhook's
\* fetch, succeeds, answers with a non-2xx status, or fails outright.
Deliveries == {"ok", "http-error", "failed"}

Job(channel, provider, status, error) ==
  [channel |-> channel, provider |-> provider, status |-> status, error |-> error]

\* sendDesktopNotification: the promise resolves on success and on failure.
desktopOutcome(job, delivery) ==
  IF delivery = "ok"
  THEN [job EXCEPT !.status = "ok"]
  ELSE [job EXCEPT !.status = "failed", !.error = <<"desktop", "error">>]

\* sendWebhookNotification up to its fetch: a disabled webhook resolves to
\* null, a telegram webhook without chatId to a failure; the others wait.
webhookJob(config) ==
  IF ~config.enabled THEN Job("webhook", config.provider, "null", <<>>)
  ELSE IF config.provider = "telegram" /\ config.chatId \in {Undefined, ""}
       THEN Job("webhook", config.provider, "failed", <<config.provider, "missing chatId">>)
       ELSE Job("webhook", config.provider, "pending", <<>>)

\* sendWebhookNotification from its fetch on.
webhookOutcome(job, delivery) ==
  CASE delivery = "ok" -> [job EXCEPT !.status = "ok"]
    [] delivery = "http-error" ->
         [job EXCEPT !.status = "failed", !.error = <<job.provider, "HTTP">>]
    [] OTHER -> [job EXCEPT !.status = "failed", !.error = <<job.provider, "error">>]

SeqContains(seq, x) == \E i \in 1..Len(seq) : seq[i] = x

EmptySummary == [desktop |-> FALSE, webhooks |-> <<>>, errors |-> <<>>]

\* One turn of the loop over outcomes in sendNotification.
addOutcome(summary, outcome) ==
  IF outcome.status = "null" THEN summary
  ELSE IF outcome.channel = "desktop"
       THEN [summary EXCEPT
               !.desktop = (outcome.status = "ok"),
               !.errors = IF outcome.status # "ok" /\ outcome.error # <<>>
                          THEN Append(@, outcome.error) ELSE @]
       ELSE IF outcome.status = "ok"
            THEN [summary EXCEPT
                    !.webhooks = IF SeqContains(@, outcome.provider) THEN @
                                 ELSE Append(@, outcome.provider)]
            ELSE IF outcome.error # <<>>
                 THEN [summary EXCEPT !.errors = Append(@, outcome.error)]
                 ELSE summary

\* A loop over outcomes that gives up at the first failed one.
summarizeUntilFailure(outcomes) ==
  LET F[i \in 0..Len(outcomes)] ==
        IF i = 0 THEN EmptySummary
        ELSE IF \E j \in 1..(i - 1) : outcomes[j].status = "failed" THEN F[i - 1]
             ELSE addOutcome(F[i - 1], outcomes[i])
  IN F[Len(outcomes)]

\* The loop over outcomes in sendNotification.
summarize(outcomes) ==
  LET F[i \in 0..Len(outcomes)] ==
        IF i = 0 THEN EmptySummary ELSE addOutcome(F[i - 1], outcomes[i])
  IN F[Len(outcomes)]

\* sendNotification up to `await Promise.all(jobs)`.
SendNotification ==
  /\ notifyPc \in {"idle", "returned"}
  /\ LET config == currentConfig.notification
     IN notifyJobs' =
          (IF config.desktop THEN <<Job("desktop", "desktop", "pending", <<>>)>> ELSE <<>>)
          \o [i \in 1..Len(config.webhooks) |-> webhookJob(config.webhooks[i])]
  /\ notifyPc' = "awaiting"
  /\ notifySummary' = EmptySummary

\* One pending delivery settles; the jobs run concurrently, so in any order.
JobSettles(i, delivery) ==
  /\ notifyPc = "awaiting"
  /\ i \in 1..Len(notifyJobs)
  /\ notifyJobs[i].status = "pending"
  /\ notifyJobs' = [notifyJobs EXCEPT ![i] =
                      IF @.channel = "desktop" THEN desktopOutcome(@, delivery)
                      ELSE webhookOutcome(@, delivery)]
  /\ UNCHANGED <<notifyPc, notifySummary>>

\* Promise.all settles: it rejects as soon as one job has rejected, and
\* resolves once every job has resolved; sendNotification then returns.
NotifyReturn ==
  /\ notifyPc = "awaiting"
  /\ IF \E i \in 1..Len(notifyJobs) : notifyJobs[i].status = "rejected"
     THEN /\ notifyPc' = "threw"
          /\ UNCHANGED notifySummary
     ELSE /\ \A i \in 1..Len(notifyJobs) : notifyJobs[i].status # "pending"
          /\ notifyPc' = "returned"
          /\ notifySummary' = summarize(notifyJobs)
  /\ UNCHANGED notifyJobs

Webhook(url, enabled, provider, chatId) ==
  [url |-> url, enabled |-> enabled, provider |-> provider, chatId |-> chatId]

\* The notification sections pipe.json may hold.
RawWebhookLists ==
  {AbsentList,
   Given(<<Webhook("u1", AbsentBool, AbsentStr, AbsentStr)>>),
   Given(<<Webhook("u1", Given(FALSE), AbsentStr, AbsentStr),
           Webhook("u2", AbsentBool, Given("feishu"), AbsentStr)>>),
   Given(<<Webhook("u1", AbsentBool, Given("feishu"), AbsentStr),
           Webhook("u2", AbsentBool, Given("telegram"), Given("42"))>>),
   Given(<<Webhook("u1", AbsentBool, AbsentStr, AbsentStr),
           Webhook("u2", AbsentBool, AbsentStr, AbsentStr)>>)}
NotifyFiles ==
  {JsonFile([EmptyObject EXCEPT !.notification = [desktop |-> d, webhooks |-> w]]) :
     d \in {AbsentBool, Given(FALSE)}, w \in RawWebhookLists}

InitNotify ==
  /\ InitConfig(NotifyFiles, TRUE)
  /\ now = 0
  /\ InitDedupStore
  /\ NotifyIdle
  /\ PipeIdle
  /\ LibIdle

otherThanNotify == <<currentConfig, configRest, now, dedupVars, pipeVars, libVars>>

NSend == SendNotification /\ UNCHANGED otherThanNotify
NSettle == \E i \in 1..Len(notifyJobs), delivery \in Deliveries :
             JobSettles(i, delivery) /\ UNCHANGED otherThanNotify
NReturn == NotifyReturn /\ UNCHANGED otherThanNotify

NextNotify == NSend \/ NSettle \/ NReturn

SpecNotify == InitNotify /\ [][NextNotify]_vars

\* The channels the live notification config enables, by job position.
enabledChannels(config) ==
  (IF config.desktop THEN {"desktop"} ELSE {})
  \cup {config.webhooks[i].url : i \in {j \in 1..Len(config.webhooks) : config.webhooks[j].enabled}}

\* C6: sendNotification never fails, and when it has returned every enabled
\* channel was attempted and is reported: a failed one by its error in
\* errors, a webhook that succeeded by its provider, the desktop channel by
\* the desktop flag, whatever happened to the other channels.
C6_ChannelsIndependent ==
  /\ notifyPc # "threw"
  /\ notifyPc = "returned" =>
       /\ Cardinality({i \in 1..Len(notifyJobs) : notifyJobs[i].status # "null"})
            = Cardinality(enabledChannels(currentConfig.notification))
       /\ \A i \in 1..Len(notifyJobs) :
            LET job == notifyJobs[i]
            IN /\ job.status \in {"null", "ok", "failed"}
               /\ job.status = "failed" => SeqContains(notifySummary.errors, job.error)
               /\ (job.status = "ok" /\ job.channel = "webhook")
                    => SeqContains(notifySummary.webhooks, job.provider)
               /\ job.channel = "desktop" => (notifySummary.desktop <=> job.status = "ok")

C6_Witness ==
  /\ notifyPc = "returned"
  /\ Len(notifyJobs) = 3
  /\ notifyJobs[1].status = "failed"
  /\ notifyJobs[2].status = "failed"
  /\ notifyJobs[3].status = "ok"
  /\ notifySummary.webhooks = <<"telegram">>
  /\ Len(notifySummary.errors) = 2

\* ------------------------------------------------------------------ pipeline
\* The two entry points: the polling loop of runPipeline and the
\* hotkey-triggered triggerOnce. Each is suspended at one await at a time.
Passes == {"poll", "hotkey"}

Intent(content, actionable, noteworthy) ==
  [content |-> content, actionable |-> actionable, noteworthy |-> noteworthy,
   urgent |-> FALSE, due_time |-> Null]

NoIntent == Intent(<<>>, FALSE, FALSE)

\* What detectIntent may return once normalizeIntentResult has run.
PipeContents == {TextAbcd, TextTwoLines}
PipeIntents ==
  {Intent(TextTwoLines, TRUE, FALSE), Intent(TextAbcd, FALSE, TRUE),
   Intent(TextAbcd, TRUE, TRUE), Intent(TextAbcd, FALSE, FALSE)}

\* What the review model may answer at a stage: the call fails; JSON with
\* approved=false; JSON with approved=true that also claims actionable=true
\* and noteworthy=true; JSON with approved=true and a refined_content.
ReviewOutputs == {"error", "rejected", "promoting", "refined"}

\* The same, and text in which extractReviewJson finds no object it can
\* parse (no braces, or braces around something JSON.parse rejects).
ReviewAnswers == ReviewOutputs \cup {"garbage"}
RefinedText == <<"r">>

\* A stage 1 whose rejection only clears the flag and lets stage 2 run.
reviewStage1Continuing(intent, output) ==
  CASE output = "error" -> [kind |-> "throw", intent |-> intent]
    [] output = "rejected" -> [kind |-> "continue", intent |-> [intent EXCEPT !.actionable = FALSE]]
    [] OTHER -> [kind |-> "continue", intent |-> intent]

\* reviewIntent, stage 1, from the model's answer on.
reviewStage1(intent, output) ==
  CASE output = "error" -> [kind |-> "throw", intent |-> intent]
    [] output = "rejected" -> [kind |-> "return", intent |-> [intent EXCEPT !.actionable = FALSE]]
    [] OTHER -> [kind |-> "continue", intent |-> intent]

\* A stage 2 that believes the flags the model sends back.
reviewStage2Trusting(intent, output) ==
  CASE output = "error" -> [kind |-> "throw", intent |-> intent]
    [] output = "rejected" -> [kind |-> "return", intent |-> [intent EXCEPT !.actionable = FALSE]]
    [] output = "promoting" ->
         [kind |-> "return", intent |-> [intent EXCEPT !.actionable = TRUE, !.noteworthy = TRUE]]
    [] output = "refined" /\ RefinedText # intent.content ->
         [kind |-> "return", intent |-> [intent EXCEPT !.content = RefinedText]]
    [] OTHER -> [kind |-> "return", intent |-> intent]

\* A stage 2 that takes an answer it cannot parse for a failed call.
reviewStage2Strict(intent, output) ==
  CASE output \in {"error", "garbage"} -> [kind |-> "throw", intent |-> intent]
    [] output = "rejected" -> [kind |-> "return", intent |-> [intent EXCEPT !.actionable = FALSE]]
    [] output = "refined" /\ RefinedText # intent.content ->
         [kind |-> "return", intent |-> [intent EXCEPT !.content = RefinedText]]
    [] OTHER -> [kind |-> "return", intent |-> intent]

\* reviewIntent, stage 2, from the model's answer on.
reviewStage2(intent, output) ==
  CASE output = "error" -> [kind |-> "throw", intent |-> intent]
    [] output = "rejected" -> [kind |-> "return", intent |-> [intent EXCEPT !.actionable = FALSE]]
    [] output = "refined" /\ RefinedText # intent.content ->
         [kind |-> "return", intent |-> [intent EXCEPT !.content = RefinedText]]
    [] OTHER -> [kind |-> "return", intent |-> intent]

\* getReviewProvider: the provider it returns and the one left cached.
getReviewProvider(config, cached) ==
  IF ~config.enabled \/ config.apiKey = "" THEN [provider |-> NoProvider, cached |-> cached]
  ELSE IF config.provider = "" \/ config.model = ""
       THEN [provider |-> NoProvider, cached |-> cached]
       ELSE IF cached = NoProvider
            THEN IF config.provider = "gemini"
                 THEN [provider |-> [apiKey |-> config.apiKey, model |-> config.model],
                       cached |-> [apiKey |-> config.apiKey, model |-> config.model]]
                 ELSE [provider |-> NoProvider, cached |-> cached]
            ELSE [provider |-> cached, cached |-> cached]

\* Screen text as the sequence of its trimmed, non-empty lines.
\* A blank line is the element "".
LineSet(text) == {text[i] : i \in 1..Len(text)} \ {""}

\* String.prototype.trim() on a text: the blank lines at its two ends go.
trimText(text) ==
  LET inked == {i \in 1..Len(text) : text[i] # ""}
  IN IF inked = {} THEN <<>> ELSE SubSeq(text, SetMin(inked), SetMax(inked))

\* changeRatio(a, b) >= MIN_CHANGE_RATIO, with the ratio 1 - same/total
\* compared in hundredths.
MIN_CHANGE_RATIO == 15
changeRatioAtLeast(a, b, hundredths) ==
  IF a = b THEN 0 >= hundredths
  ELSE IF a = <<>> \/ b = <<>> THEN 100 >= hundredths
       ELSE LET same == Cardinality(LineSet(a) \cap LineSet(b))
                total == Max2(Max2(Cardinality(LineSet(a)), Cardinality(LineSet(b))), 1)
            IN (total - same) * 100 >= hundredths * total

\* A detectChange that moves the baseline only when it forwards the text.
detectChangeKeepingBaseline(last, newText) ==
  LET trimmed == trimText(newText)
  IN IF trimmed = <<>> THEN [changed |-> FALSE, reason |-> "empty", lastText |-> last]
     ELSE IF trimmed = last THEN [changed |-> FALSE, reason |-> "same", lastText |-> last]
          ELSE IF ~changeRatioAtLeast(last, trimmed, MIN_CHANGE_RATIO)
               THEN [changed |-> FALSE, reason |-> "below-threshold", lastText |-> last]
               ELSE [changed |-> TRUE, reason |-> "changed", lastText |-> trimmed]

\* detectChange: the decision and the new lastText.
detectChange(last, newText) ==
  LET trimmed == trimText(newText)
  IN IF trimmed = <<>> THEN [changed |-> FALSE, reason |-> "empty", lastText |-> last]
     ELSE IF trimmed = last THEN [changed |-> FALSE, reason |-> "same", lastText |-> last]
          ELSE IF ~changeRatioAtLeast(last, trimmed, MIN_CHANGE_RATIO)
               THEN [changed |-> FALSE, reason |-> "below-threshold", lastText |-> trimmed]
               ELSE [changed |-> TRUE, reason |-> "changed", lastText |-> trimmed]

\* processIntent's two dedup checks, actionable first; a check that raises
\* ends processIntent before the other one is made.
dedupChecks(cache, file, initialized, config, intent, nowT, okA, okN) ==
  LET untouched(t) == [outcome |-> "none", cache |-> cache[t], file |-> file[t]]
      a == IF intent.actionable
           THEN checkDedup(cache["actionable"], file["actionable"], initialized["actionable"],
                           config, "actionable", intent.content, nowT, okA)
           ELSE untouched("actionable")
      doN == intent.noteworthy /\ a.outcome # "threw"
      n == IF doN
           THEN checkDedup(cache["noteworthy"], file["noteworthy"], initialized["noteworthy"],
                           config, "noteworthy", intent.content, nowT, okN)
           ELSE untouched("noteworthy")
  IN [outcome |-> [actionable |-> a.outcome, noteworthy |-> n.outcome],
      cache |-> [actionable |-> a.cache, noteworthy |-> n.cache],
      file |-> [actionable |-> a.file, noteworthy |-> n.file],
      initialized |-> [actionable |-> initialized["actionable"] \/ intent.actionable,
                       noteworthy |-> initialized["noteworthy"] \/ doN]]

NewCur == [input |-> NoIntent, exec |-> NoIntent, branch |-> "none"]

NewLog ==
  [detect |-> "none", checked |-> <<>>, checks |-> [t \in Tracks |-> "none"],
   dedupTouched |-> FALSE, reviewOut |-> "none", failOpen |-> "none", passed |-> NoIntent,
   recorded |-> <<>>, notified |-> <<>>, noted |-> <<>>, ended |-> "none",
   stages |-> <<>>, errors |-> <<>>,
   afterStage1 |-> NoIntent, stage2Called |-> FALSE, reviewEnd |-> "none",
   reviewed |-> NoIntent,
   selected |-> [provider |-> NoProvider, failOpen |-> FALSE]]

\* The pass returns to its caller: the loop goes to sleep, triggerOnce returns.
endPass(ps, how) == [ps EXCEPT !.pc = "end", !.log.ended = how]

\* An execution that records whatever the actionable flag says.
executeUngated(ps, x, branch, taskWriteOk) ==
  IF taskWriteOk
  THEN [ps EXCEPT !.pc = "record", !.cur.exec = x, !.cur.branch = branch,
                  !.log.recorded = Append(@, x),
                  !.log.stages = Append(@, "record")]
  ELSE [ps EXCEPT !.pc = "throw", !.cur.exec = x, !.cur.branch = branch,
                  !.log.recorded = Append(@, x),
                  !.log.stages = Append(@, "record")]

\* `if (x.actionable) { await recordAndNotify(x) ... } if (x.noteworthy)
\* { await recordNoteworthy(x) }`, run up to its first await. recordAndNotify
\* pushes to taskCache, then appends to tasks.md, which may raise.
execute(ps, x, branch, taskWriteOk) ==
  IF x.actionable
  THEN IF taskWriteOk
       THEN [ps EXCEPT !.pc = "record", !.cur.exec = x, !.cur.branch = branch,
                       !.log.recorded = Append(@, x),
                       !.log.stages = Append(@, "record")]
       ELSE [ps EXCEPT !.pc = "throw", !.cur.exec = x, !.cur.branch = branch,
                       !.log.recorded = Append(@, x),
                       !.log.stages = Append(@, "record")]
  ELSE IF x.noteworthy
       THEN [ps EXCEPT !.pc = "note", !.cur.exec = x, !.cur.branch = branch,
                       !.log.noted = Append(@, x),
                       !.log.stages = Append(@, "note")]
       ELSE endPass(ps, "done")

\* A catch block that drops the intent whatever the flag says.
reviewCatchClosed(ps, failOpen, taskWriteOk) ==
  endPass([ps EXCEPT !.log.failOpen = "closed"], "dropped")

\* processIntent's catch block, entered with the failOpen flag as it is read
\* there; an error it raises itself reaches the caller's catch.
reviewCatch(ps, failOpen, taskWriteOk) ==
  IF ~failOpen THEN endPass([ps EXCEPT !.log.failOpen = "closed"], "dropped")
  ELSE LET r == execute([ps EXCEPT !.log.failOpen = "open", !.log.passed = ps.cur.input],
                        ps.cur.input, "failopen", taskWriteOk)
       IN IF r.pc = "throw" THEN endPass(r, "error") ELSE r

\* execute inside processIntent's try block (branch "reviewed"), inside its
\* catch block or on the path without review: where a raised error lands.
executeIn(ps, x, branch, failOpen, taskWriteOk, taskWriteOkAgain) ==
  LET r == execute(ps, x, branch, taskWriteOk)
  IN IF r.pc # "throw" THEN r
     ELSE IF branch = "reviewed" THEN reviewCatch(r, failOpen, taskWriteOkAgain)
          ELSE endPass(r, "error")

EndPc(p) == IF p = "poll" THEN "sleep" ELSE "idle"

PassState(p) == [pc |-> pc[p], cur |-> cur[p], log |-> passLog[p]]

\* The pass p goes on as ps says; its locals die when it returns.
SetPass(p, ps) ==
  /\ pc' = [pc EXCEPT ![p] = IF ps.pc = "end" THEN EndPc(p) ELSE ps.pc]
  /\ cur' = [cur EXCEPT ![p] = IF ps.pc = "end" THEN NewCur ELSE ps.cur]
  /\ passLog' = [passLog EXCEPT ![p] = ps.log]

Alive == pc["poll"] # "exited"

configVars == <<currentConfig, configRest>>
otherThanPipe == <<now, checkLog, notifyVars, libVars>>

\* The pipe.json variants the pipeline runs under: review off, review on
\* (failOpen defaulted to true), review on with failOpen false, and
\* hotkey-only capture.
ReviewOn == [NoRawReview EXCEPT !.enabled = Given(TRUE), !.provider = Given("gemini"),
                                !.model = Given("m1"), !.apiKey = Given("k1")]
PipeFiles ==
  {JsonFile(EmptyObject),
   JsonFile([EmptyObject EXCEPT !.review = ReviewOn]),
   JsonFile([EmptyObject EXCEPT !.review = [ReviewOn EXCEPT !.failOpen = Given(FALSE)]]),
   JsonFile([EmptyObject EXCEPT !.capture = [NoRawCapture EXCEPT !.mode = Given("hotkey")]])}

\* The combined OCR text one capture query may yield.
ScreenTexts == {<<"line1">>, <<"line2">>}

Init ==
  /\ InitConfig(PipeFiles, FALSE)
  /\ now = 0
  /\ InitDedupStore
  /\ NotifyIdle
  /\ LibIdle
  /\ isRunning = FALSE
  /\ pollLoops = 0
  /\ lastStart = "none"
  /\ stopRequested = FALSE
  /\ lastText = <<>>
  /\ pc = [p \in Passes |-> "idle"]
  /\ cur = [p \in Passes |-> NewCur]
  /\ passLog = [p \in Passes |-> NewLog]

\* A startPipeline that takes no notice of isRunning, calling a runPipeline
\* that takes none either.
StartPipelineUnguarded ==
  /\ Alive
  /\ watcherStarted' = TRUE
  /\ fileChanged' = (watcherStarted /\ fileChanged)
  /\ rawCache' = [t \in Tracks |-> loadRawEntries(rawFile[t])]
  /\ rawInitialized' = [t \in Tracks |-> TRUE]
  /\ isRunning' = TRUE
  /\ lastStart' = "started"
  /\ IF captureConfig.mode = "hotkey"
     THEN UNCHANGED <<pollLoops, pc, passLog>>
     ELSE /\ pollLoops' = pollLoops + 1
          /\ pc' = [pc EXCEPT !["poll"] = "fetch"]
          /\ passLog' = [passLog EXCEPT !["poll"] = NewLog]
  /\ UNCHANGED <<currentConfig, configFile, lastConfigEvent, lastReload, reviewConfig,
                 captureConfig, reviewProvider, rawFile, stopRequested, lastText, cur,
                 otherThanPipe>>

\* startPipeline: setupConfigWatcher, the three loads, then runPipeline up
\* to its first await (none in hotkey-only mode).
StartPipeline ==
  /\ Alive
  /\ IF isRunning
     THEN /\ lastStart' = "ignored"
          /\ UNCHANGED <<configVars, rawCache, rawFile, rawInitialized, isRunning, pollLoops,
                         stopRequested, lastText, pc, cur, passLog, otherThanPipe>>
     ELSE /\ watcherStarted' = TRUE
          /\ fileChanged' = (watcherStarted /\ fileChanged)
          /\ rawCache' = [t \in Tracks |-> loadRawEntries(rawFile[t])]
          /\ rawInitialized' = [t \in Tracks |-> TRUE]
          /\ isRunning' = TRUE
          /\ lastStart' = "started"
          /\ IF captureConfig.mode = "hotkey"
             THEN UNCHANGED <<pollLoops, pc, passLog>>
             ELSE /\ pollLoops' = pollLoops + 1
                  /\ pc' = [pc EXCEPT !["poll"] = "fetch"]
                  /\ passLog' = [passLog EXCEPT !["poll"] = NewLog]
          /\ UNCHANGED <<currentConfig, configFile, lastConfigEvent, lastReload, reviewConfig,
                         captureConfig, reviewProvider, rawFile, stopRequested, lastText, cur,
                         otherThanPipe>>

\* triggerOnce up to `await pipe.queryScreenpipe(query)`.
TriggerOnce ==
  /\ pc["hotkey"] = "idle"
  /\ pc' = [pc EXCEPT !["hotkey"] = "fetch"]
  /\ passLog' = [passLog EXCEPT !["hotkey"] = NewLog]
  /\ UNCHANGED <<configVars, rawCache, rawFile, rawInitialized, isRunning, pollLoops,
                 lastStart, stopRequested, lastText, cur, otherThanPipe>>

\* The capture query settles: it fails, returns no item, returns items the
\* filter drops, or yields text. The loop then runs detectChange.
FetchReturns(p, result, text) ==
  /\ pc[p] = "fetch"
  /\ \E ps \in {PassState(p)} :
       IF result = "error" THEN SetPass(p, endPass(ps, "error")) /\ UNCHANGED lastText
       ELSE IF result \in {"no-data", "filtered"}
            THEN SetPass(p, endPass(ps, "skip")) /\ UNCHANGED lastText
            ELSE IF p = "hotkey"
                 THEN /\ SetPass(p, [ps EXCEPT !.pc = "detect",
                                                 !.log.stages = Append(@, "classify")])
                      /\ UNCHANGED lastText
                 ELSE \E change \in {detectChange(lastText, text)} :
                      \E compared \in {[ps EXCEPT !.log.stages = Append(@, "change")]} :
                        /\ lastText' = change.lastText
                        /\ IF change.changed
                           THEN SetPass(p, [compared EXCEPT
                                              !.pc = "detect",
                                              !.log.stages = Append(@, "classify")])
                           ELSE SetPass(p, endPass(compared, "skip"))
  /\ UNCHANGED <<configVars, rawCache, rawFile, rawInitialized, isRunning, pollLoops,
                 lastStart, stopRequested, otherThanPipe>>

\* A pass that answers a failed inference call with a default actionable
\* intent and takes it through dedup and execution.
DetectFailsOpen(p) ==
  /\ pc[p] = "detect"
  /\ \E ps \in {[PassState(p) EXCEPT !.log.detect = "failed",
                                      !.log.stages = Append(@, "classified")]} :
     \E d \in {dedupChecks(rawCache, rawFile, rawInitialized, currentConfig,
                           Intent(TextAbcd, TRUE, FALSE), now, TRUE, TRUE)} :
       /\ rawCache' = d.cache
       /\ rawFile' = d.file
       /\ rawInitialized' = d.initialized
       /\ SetPass(p, execute([ps EXCEPT !.log.checks = d.outcome,
                                        !.log.dedupTouched =
                                          d.cache # rawCache \/ d.file # rawFile],
                             Intent(TextAbcd, TRUE, FALSE), "direct", TRUE))
  /\ UNCHANGED <<configVars, isRunning, pollLoops, lastStart, stopRequested, lastText,
                 otherThanPipe>>

\* detectIntent returns null: the inference call failed, timed out, or its
\* answer could not be parsed.
DetectFails(p) ==
  /\ pc[p] = "detect"
  /\ SetPass(p, endPass([PassState(p) EXCEPT !.log.detect = "failed",
                                              !.log.stages = Append(@, "classified")],
                        "skip"))
  /\ UNCHANGED <<configVars, rawCache, rawFile, rawInitialized, isRunning, pollLoops,
                 lastStart, stopRequested, lastText, otherThanPipe>>

\* A processIntent that records the candidate before it asks for review.
enterReviewRecordingFirst(checked, reviewInput) ==
  [checked EXCEPT !.pc = "review1", !.cur.input = reviewInput,
                  !.log.stages = Append(Append(@, "record"), "review")]

\* processIntent from building reviewInput to `await reviewIntent(...)`.
enterReview(checked, reviewInput) ==
  [checked EXCEPT !.pc = "review1", !.cur.input = reviewInput,
                  !.log.stages = Append(@, "review")]

\* detectIntent returns an intent; processIntent runs up to its first await.
DetectReturns(p, intent, okA, okN, taskWriteOk) ==
  /\ pc[p] = "detect"
  /\ \E ps \in {[PassState(p) EXCEPT !.log.detect = "ok",
                                      !.log.stages = Append(@, "classified")]} :
       IF ~intent.actionable /\ ~intent.noteworthy
       THEN /\ SetPass(p, endPass(ps, "skip"))
            /\ UNCHANGED <<rawCache, rawFile, rawInitialized, reviewProvider>>
       ELSE \E chosen \in {getReviewProvider(reviewConfig, reviewProvider)} :
            \E d \in {dedupChecks(rawCache, rawFile, rawInitialized, currentConfig, intent,
                                  now, okA, okN)} :
              LET actionableCandidate == d.outcome["actionable"] = "passed"
                  noteworthyCandidate == d.outcome["noteworthy"] = "passed"
                  \* the intent with the two candidate flags: reviewInput, and on
                  \* the path without review what `if (actionableCandidate)` and
                  \* `if (noteworthyCandidate)` let through
                  candidate == [intent EXCEPT !.actionable = actionableCandidate,
                                              !.noteworthy = noteworthyCandidate]
                  checked == [ps EXCEPT !.log.checked = intent.content,
                                        !.log.stages = Append(@, "dedup"),
                                        !.log.checks = d.outcome,
                                        !.log.dedupTouched =
                                          d.cache # rawCache \/ d.file # rawFile]
              IN /\ reviewProvider' = chosen.cached
                 /\ rawCache' = d.cache
                 /\ rawFile' = d.file
                 /\ rawInitialized' = d.initialized
                 /\ IF "threw" \in {d.outcome[t] : t \in Tracks}
                    THEN SetPass(p, endPass(checked, "error"))
                    ELSE IF ~actionableCandidate /\ ~noteworthyCandidate
                         THEN SetPass(p, endPass(checked, "duplicate"))
                         ELSE IF chosen.provider = NoProvider
                              THEN SetPass(p, executeIn(checked, candidate, "direct", FALSE,
                                                        taskWriteOk, FALSE))
                              ELSE SetPass(p, enterReview(
                                       [checked EXCEPT
                                          !.log.selected =
                                            [provider |-> chosen.provider,
                                             failOpen |-> reviewConfig.failOpen]],
                                       candidate))
  /\ UNCHANGED <<currentConfig, configFile, fileChanged, watcherStarted, lastConfigEvent,
                 lastReload, reviewConfig, captureConfig, isRunning, pollLoops, lastStart,
                 stopRequested, lastText, otherThanPipe>>

\* processIntent after `await reviewIntent(...)` returned an intent.
afterReview(ps, reviewed, failOpen, taskWriteOk, taskWriteOkAgain) ==
  IF ~reviewed.actionable /\ ~reviewed.noteworthy THEN endPass(ps, "rejected")
  ELSE executeIn(ps, reviewed, "reviewed", failOpen, taskWriteOk, taskWriteOkAgain)

\* The review stage awaited by pass p settles with the model's answer.
ReviewReturns(p, output, taskWriteOk, taskWriteOkAgain) ==
  /\ pc[p] \in {"review1", "review2"}
  /\ \E ps \in {[PassState(p) EXCEPT !.log.reviewOut = output]} :
     \E r \in {IF pc[p] = "review1" THEN reviewStage1(ps.cur.input, output)
               ELSE reviewStage2(ps.cur.input, output)} :
     \E staged \in {IF pc[p] = "review1" /\ r.kind # "throw"
                     THEN [ps EXCEPT !.log.afterStage1 = r.intent] ELSE ps} :
     \E settled \in {[staged EXCEPT !.log.stages = Append(@, "reviewed"),
                                    !.log.reviewEnd =
                                      IF r.kind = "throw" THEN "threw" ELSE "returned",
                                    !.log.reviewed =
                                      IF r.kind = "throw" THEN NoIntent ELSE r.intent]} :
       CASE r.kind = "throw" ->
              SetPass(p, reviewCatch(settled, reviewConfig.failOpen, taskWriteOk))
         [] r.kind = "continue" ->
              SetPass(p, [staged EXCEPT !.pc = "review2", !.log.stage2Called = TRUE])
         [] OTHER -> SetPass(p, afterReview(settled, r.intent, reviewConfig.failOpen,
                                            taskWriteOk, taskWriteOkAgain))
  /\ UNCHANGED <<configVars, rawCache, rawFile, rawInitialized, isRunning, pollLoops,
                 lastStart, stopRequested, lastText, otherThanPipe>>

\* A recordAndNotify that lets the failure of the reminders sync escape:
\* the pass ends in the caller's catch and no notification is sent.
recordAndNotifyRaising(ps, synced) ==
  IF synced
  THEN [ps EXCEPT !.pc = "notify",
                  !.log.notified = Append(@, ps.cur.exec),
                  !.log.stages = Append(@, "notify")]
  ELSE endPass([ps EXCEPT !.log.errors = Append(@, ps.cur.exec)], "error")

\* recordAndNotify from `await syncTaskToReminders(...)` on: the sync settled
\* (synced) or threw; the throw is caught and comes back as reminderError,
\* which processIntent pushes to notifySummary.errors before it goes on to
\* `await sendNotification(x)`.
recordAndNotify(ps, synced) ==
  LET told == IF synced THEN ps ELSE [ps EXCEPT !.log.errors = Append(@, ps.cur.exec)]
  IN [told EXCEPT !.pc = "notify",
                  !.log.notified = Append(@, ps.cur.exec),
                  !.log.stages = Append(@, "notify")]

RemindersReturn(p, synced) ==
  /\ pc[p] = "record"
  /\ SetPass(p, recordAndNotify(PassState(p), synced))
  /\ UNCHANGED <<configVars, rawCache, rawFile, rawInitialized, isRunning, pollLoops,
                 lastStart, stopRequested, lastText, otherThanPipe>>

\* sendNotification returns; processIntent goes on to recordNoteworthy when
\* the executed intent is noteworthy.
NotifyReturns(p) ==
  /\ pc[p] = "notify"
  /\ \E ps \in {PassState(p)} :
       IF ps.cur.exec.noteworthy
       THEN SetPass(p, [ps EXCEPT !.pc = "note", !.log.noted = Append(@, ps.cur.exec),
                                  !.log.stages = Append(@, "note")])
       ELSE SetPass(p, endPass(ps, "done"))
  /\ UNCHANGED <<configVars, rawCache, rawFile, rawInitialized, isRunning, pollLoops,
                 lastStart, stopRequested, lastText, otherThanPipe>>

\* syncMemoToAppleNotes settles (its failure is caught in recordNoteworthy).
NotesReturn(p) ==
  /\ pc[p] = "note"
  /\ SetPass(p, endPass(PassState(p), "done"))
  /\ UNCHANGED <<configVars, rawCache, rawFile, rawInitialized, isRunning, pollLoops,
                 lastStart, stopRequested, lastText, otherThanPipe>>

\* `await sleep(POLL_INTERVAL_MS)` ends: `while (true)` starts the next
\* iteration.
PollSleepDone ==
  /\ pc["poll"] = "sleep"
  /\ pc' = [pc EXCEPT !["poll"] = "fetch"]
  /\ passLog' = [passLog EXCEPT !["poll"] = NewLog]
  /\ UNCHANGED <<pollLoops, isRunning>>
  /\ UNCHANGED <<configVars, rawCache, rawFile, rawInitialized, lastStart, stopRequested,
                 lastText, cur, otherThanPipe>>

\* scripts/dev.ts cleanup(signal): the launcher is asked to stop.
RequestStop ==
  /\ Alive
  /\ ~stopRequested
  /\ stopRequested' = TRUE
  /\ UNCHANGED <<configVars, rawCache, rawFile, rawInitialized, isRunning, pollLoops,
                 lastStart, lastText, pc, cur, passLog, otherThanPipe>>

\* scripts/dev.ts next.on("exit"): process.exit ends the process, and with
\* it every pass, wherever it is suspended.
ProcessExit ==
  /\ Alive
  /\ stopRequested
  /\ pc' = [p \in Passes |-> "exited"]
  /\ cur' = [p \in Passes |-> NewCur]
  /\ passLog' = [p \in Passes |-> NewLog]
  /\ pollLoops' = 0
  /\ UNCHANGED <<configVars, rawCache, rawFile, rawInitialized, isRunning, lastStart,
                 stopRequested, lastText, otherThanPipe>>

PFetch == \E p \in Passes, result \in {"error", "no-data", "filtered", "text"},
             text \in ScreenTexts : FetchReturns(p, result, text)
PDetectFails == \E p \in Passes : DetectFails(p)
\* A failing append to the raw dedup logs is exercised on the store itself
\* (SpecDedup); here the raw log writes succeed.
PDetect == \E p \in Passes, intent \in PipeIntents, taskWriteOk \in BOOLEAN :
             DetectReturns(p, intent, TRUE, TRUE, taskWriteOk)
PReview == \E p \in Passes, output \in ReviewOutputs, taskWriteOk \in BOOLEAN,
              taskWriteOkAgain \in BOOLEAN :
             ReviewReturns(p, output, taskWriteOk, taskWriteOkAgain)
PReminders == \E p \in Passes, synced \in BOOLEAN : RemindersReturn(p, synced)
PNotify == \E p \in Passes : NotifyReturns(p)
PNotes == \E p \in Passes : NotesReturn(p)

Next ==
  \/ StartPipeline
  \/ TriggerOnce
  \/ PFetch
  \/ PDetectFails
  \/ PDetect
  \/ PReview
  \/ PReminders
  \/ PNotify
  \/ PNotes
  \/ PollSleepDone
  \/ RequestStop
  \/ ProcessExit

Spec == Init /\ [][Next]_vars

InFlight(p) == pc[p] \in {"record", "notify", "note"}

\* C2: whatever the review model answers, the intent the review gate
\* returns has actionable set only if the intent handed to it had, and
\* noteworthy set only if the intent handed to it had.
C2_ReviewOnlyDowngrades ==
  \A p \in Passes :
    cur[p].branch = "reviewed" =>
      /\ cur[p].exec.actionable => cur[p].input.actionable
      /\ cur[p].exec.noteworthy => cur[p].input.noteworthy

C2_Witness ==
  \E p \in Passes :
    /\ cur[p].branch = "reviewed"
    /\ passLog[p].reviewOut = "promoting"
    /\ ~cur[p].input.actionable
    /\ cur[p].input.noteworthy
    /\ cur[p].exec = cur[p].input
    /\ pc[p] = "note"

SeqOf(x, present) == IF present THEN <<x>> ELSE <<>>

\* C5: a pass whose review call failed, under failOpen=true, hands exactly
\* the intent that went into review to recording, notification and the
\* notes sync, and has done all of it when it ends without a further error;
\* under failOpen=false it records, notifies and notes nothing.
C5_FailOpen ==
  \A p \in Passes :
    passLog[p].reviewOut = "error" =>
      IF reviewConfig.failOpen
      THEN LET log == passLog[p]
               x == log.passed
           IN /\ log.failOpen = "open"
              /\ x.actionable \/ x.noteworthy
              /\ InFlight(p) => cur[p].input = x /\ cur[p].exec = x
              /\ log.recorded = SeqOf(x, x.actionable)
              /\ log.notified \in {<<>>, <<x>>}
              /\ log.noted \in {<<>>, <<x>>}
              /\ pc[p] \in {"notify", "note"} /\ x.actionable => log.notified = <<x>>
              /\ log.ended = "done" =>
                   /\ log.notified = SeqOf(x, x.actionable)
                   /\ log.noted = SeqOf(x, x.noteworthy)
      ELSE /\ passLog[p].failOpen = "closed"
           /\ passLog[p].ended = "dropped"
           /\ pc[p] = EndPc(p)
           /\ passLog[p].recorded = <<>>
           /\ passLog[p].notified = <<>>
           /\ passLog[p].noted = <<>>

C5_Witness ==
  /\ reviewConfig.failOpen
  /\ passLog["poll"].reviewOut = "error"
  /\ passLog["poll"].ended = "done"
  /\ passLog["poll"].passed = Intent(TextAbcd, TRUE, TRUE)
  /\ passLog["poll"].recorded = <<Intent(TextAbcd, TRUE, TRUE)>>
  /\ passLog["poll"].notified = <<Intent(TextAbcd, TRUE, TRUE)>>
  /\ passLog["poll"].noted = <<Intent(TextAbcd, TRUE, TRUE)>>

\* C7: a pass whose local inference call failed has ended as a skip without
\* making a dedup check, changing a dedup cache or log, recording or
\* notifying anything, and the polling loop is at its sleep, from which the
\* next iteration starts.
C7_InferenceFailureSkips ==
  \A p \in Passes :
    passLog[p].detect = "failed" =>
      /\ passLog[p].ended = "skip"
      /\ pc[p] = EndPc(p)
      /\ \A t \in Tracks : passLog[p].checks[t] = "none"
      /\ ~passLog[p].dedupTouched
      /\ passLog[p].recorded = <<>>
      /\ passLog[p].notified = <<>>
      /\ passLog[p].noted = <<>>
      /\ p = "poll" => pollLoops = 1 /\ isRunning

C7_Witness ==
  /\ passLog["poll"].detect = "failed"
  /\ pc["poll"] = "sleep"
  /\ rawCache["actionable"] # <<>>
  /\ InFlight("hotkey")

\* C8: when the pass of the polling loop and the hotkey pass have both
\* checked the same content on the same track, and one of the checks found
\* no similar entry, exactly one of the two checks passed.
C8_ExactlyOnePasses ==
  \A t \in Tracks :
    LET a == passLog["poll"].checks[t]
        b == passLog["hotkey"].checks[t]
    IN (/\ a \in {"passed", "duplicate"}
        /\ b \in {"passed", "duplicate"}
        /\ passLog["poll"].checked = passLog["hotkey"].checked
        /\ a = "passed" \/ b = "passed")
       => (a = "passed") # (b = "passed")

\* C9: at most one polling loop executes, whatever the start requests.
C9_OneLoop ==
  /\ pollLoops <= 1
  /\ pollLoops = 1 => isRunning

C9_Witness ==
  /\ lastStart = "ignored"
  /\ pollLoops = 1
  /\ pc["poll"] = "detect"

\* C10: once a stop has been requested the polling loop starts no further
\* iteration.
C10_StopObserved ==
  [][stopRequested => ~(pc["poll"] = "sleep" /\ pc'["poll"] = "fetch")]_vars

\* The stages of a pass in the order of the control flow, a call's start
\* and its settling apart.
StageRank(stage) ==
  CASE stage = "change" -> 1
    [] stage = "classify" -> 2
    [] stage = "classified" -> 3
    [] stage = "dedup" -> 4
    [] stage = "review" -> 5
    [] stage = "reviewed" -> 6
    [] stage = "record" -> 7
    [] stage = "notify" -> 8
    [] stage = "note" -> 9

HasStage(p, stage) == \E i \in 1..Len(passLog[p].stages) : passLog[p].stages[i] = stage

\* C11: within a pass the stages begin in the order change detection,
\* classification, dedup checks, review call, record and notification
\* calls, each after the one before it has completed: the classification
\* call of the polling loop starts after change detection, the dedup checks
\* after classification has returned, the review call after the dedup
\* checks, and no record, notification or notes call is made before the
\* dedup checks or while a review call made in the pass is unsettled. (The
\* record call is made a second time when the first one raised inside the
\* try block and failOpen sends the catch block through it again.)
C11_StagesInOrder ==
  \A p \in Passes :
    LET stages == passLog[p].stages
    IN /\ \A i, j \in 1..Len(stages) :
            i < j => \/ StageRank(stages[i]) < StageRank(stages[j])
                     \/ stages[i] = "record" /\ stages[j] = "record"
       /\ (p = "poll" /\ HasStage(p, "classify")) => HasStage(p, "change")
       /\ HasStage(p, "dedup") => HasStage(p, "classified")
       /\ HasStage(p, "review") => HasStage(p, "dedup")
       /\ (HasStage(p, "record") \/ HasStage(p, "notify") \/ HasStage(p, "note")) =>
            /\ HasStage(p, "dedup")
            /\ HasStage(p, "review") => HasStage(p, "reviewed")
       /\ pc[p] \in {"review1", "review2"} <=>
            (HasStage(p, "review") /\ ~HasStage(p, "reviewed"))

C32_ExecutionOnlyAfterPassedCheck ==
  \A p \in Passes :
    LET log == passLog[p]
    IN /\ (log.recorded # <<>> \/ log.notified # <<>> \/ pc[p] \in {"record", "notify"})
            => log.checks["actionable"] = "passed"
       /\ (log.noted # <<>> \/ pc[p] = "note") => log.checks["noteworthy"] = "passed"
       /\ \A i \in 1..Len(log.recorded) : log.recorded[i].actionable
       /\ \A i \in 1..Len(log.notified) : log.notified[i].actionable
       /\ \A i \in 1..Len(log.noted) : log.noted[i].noteworthy

\* An intent flagged on both tracks whose actionable check passed and whose
\* noteworthy check found a duplicate: recorded and notified without
\* review, not noted.
C32_Witness ==
  /\ passLog["poll"].checks = [actionable |-> "passed", noteworthy |-> "duplicate"]
  /\ passLog["poll"].reviewOut = "none"
  /\ passLog["poll"].recorded = <<Intent(TextAbcd, TRUE, FALSE)>>
  /\ passLog["poll"].notified = <<Intent(TextAbcd, TRUE, FALSE)>>
  /\ passLog["poll"].noted = <<>>
  /\ passLog["poll"].ended = "done"

\* C36: with review.enabled true and review.failOpen false, a pass records
\* or notifies an intent only after a review call for it returned without
\* rejecting it.
C36_NothingExecutedUnreviewed ==
  \A p \in Passes :
    (reviewConfig.enabled /\ ~reviewConfig.failOpen) =>
      ((passLog[p].recorded # <<>> \/ passLog[p].notified # <<>>) =>
         /\ passLog[p].reviewEnd = "returned"
         /\ passLog[p].reviewed.actionable)

C11_Witness ==
  /\ passLog["poll"].stages =
       <<"change", "classify", "classified", "dedup", "review", "reviewed", "record",
         "notify", "note">>
  /\ passLog["poll"].reviewOut = "refined"
  /\ pc["hotkey"] = "review2"

\* C12: after review rejected the intent of a pass, or a review error
\* dropped it, a check of the same content on a track where the pass's
\* check had passed reports a duplicate.
C12_RejectedStaysRecorded ==
  \A p \in Passes, t \in Tracks :
    (/\ passLog[p].ended \in {"rejected", "dropped"}
     /\ passLog[p].checks[t] = "passed")
    => checkDedup(rawCache[t], rawFile[t], rawInitialized[t], currentConfig, t,
                  passLog[p].checked, now, TRUE).outcome = "duplicate"

\* C13: a dedup check reports a duplicate, with a similarity at or above the
\* track's threshold, exactly when some entry of the track inside the
\* lookback window has a similarity at or above the threshold to the
\* content, and otherwise passes (or raises on a failed log write); on the
\* actionable track at threshold 0.6 with TextReport recorded, the check of
\* TextSubmitReport reports a duplicate.
C13_DuplicateIffSimilar ==
  /\ checkLog.outcome # "none" =>
        IF checkLog.similarBefore
        THEN /\ checkLog.outcome = "duplicate"
             /\ simAtLeast(checkLog.similarity, checkLog.threshold)
        ELSE checkLog.outcome \in {"passed", "threw"}
  /\ (/\ checkLog.mode = "actionable"
      /\ checkLog.threshold = 6
      /\ checkLog.content = TextSubmitReport
      /\ \E i \in 1..Len(rawCache["actionable"]) :
           /\ rawCache["actionable"][i].content = TextReport
           /\ rawCache["actionable"][i].detected >= now - currentConfig.dedup.lookbackDays)
     => checkLog.outcome = "duplicate"

C13_Witness ==
  /\ checkLog.mode = "actionable"
  /\ checkLog.threshold = 6
  /\ checkLog.content = TextSubmitReport
  /\ rawCache["actionable"] = <<[content |-> TextReport, detected |-> 0]>>
  /\ now = 1
  /\ checkLog.outcome = "duplicate"
  /\ checkLog.similarity = [num |-> 10, den |-> 13]

IsPrefixOf(s, t) == Len(s) <= Len(t) /\ SubSeq(t, 1, Len(s)) = s

\* C14: a check reports a duplicate only when an entry whose detection time
\* lies inside the lookback window is similar to the content, so an entry
\* older than the window never makes a check fail; and no step removes or
\* alters what a log file already holds.
C14_OldEntriesIgnoredAndKept ==
  [][/\ \A t \in Tracks : IsPrefixOf(rawFile[t], rawFile'[t])
     /\ checkLog'.outcome = "duplicate" =>
          \E i \in 1..Len(rawCache'[checkLog'.mode]) :
            LET entry == rawCache'[checkLog'.mode][i]
            IN /\ entry.detected >= now' - currentConfig'.dedup.lookbackDays
               /\ simAtLeast(similarity(checkLog'.content, entry.content),
                             checkLog'.threshold)]_vars

C14_Witness ==
  /\ checkLog.mode = "actionable"
  /\ checkLog.content = TextReport
  /\ checkLog.outcome = "passed"
  /\ currentConfig.dedup.lookbackDays = 1
  /\ now = 2
  /\ rawCache["actionable"] = <<[content |-> TextReport, detected |-> 0],
                                [content |-> TextReport, detected |-> 2]>>
  /\ rawFile["actionable"] = <<[text |-> TextReport, detected |-> 0],
                               [text |-> TextReport, detected |-> 2]>>

\* Physical lines of a log file.
lineCount(file) ==
  LET F[i \in 0..Len(file)] ==
        IF i = 0 THEN 0 ELSE F[i-1] + Len(splitLines(file[i].text))
  IN F[Len(file)]

OtherTrack(t) == IF t = "actionable" THEN "noteworthy" ELSE "actionable"

\* C15: a check that passes appends exactly one entry to the cache of its
\* track (as loaded from the log when the check is the track's first use)
\* and exactly one line to the track's log, and a check that reports a
\* duplicate changes neither; earlier entries and the other track stay as
\* they were.
C15_CheckFrame ==
  [][checkLog'.mode # "none" =>
       LET m == checkLog'.mode
           loaded == IF rawInitialized[m] THEN rawCache[m] ELSE loadRawEntries(rawFile[m])
       IN /\ rawCache'[OtherTrack(m)] = rawCache[OtherTrack(m)]
          /\ rawFile'[OtherTrack(m)] = rawFile[OtherTrack(m)]
          /\ checkLog'.outcome = "passed" =>
               /\ rawCache'[m] = Append(loaded, [content |-> checkLog'.content,
                                                  detected |-> now])
               /\ IsPrefixOf(rawFile[m], rawFile'[m])
               /\ lineCount(rawFile'[m]) = lineCount(rawFile[m]) + 1
          /\ checkLog'.outcome = "duplicate" =>
               /\ rawCache'[m] = loaded
               /\ rawFile'[m] = rawFile[m]]_vars

\* Cache entries of a track that its log does not hold: the log append of
\* the check that pushed them raised.
unwrittenEntries(t) ==
  {i \in 1..Len(rawCache[t]) :
     \A k \in 1..Len(rawFile[t]) : rawFile[t][k] # formatRawLine(rawCache[t][i])}

checkNow(t, content, writeOk) ==
  checkDedup(rawCache[t], rawFile[t], rawInitialized[t], currentConfig, t, content,
             now, writeOk)

\* C31 as stated: once the log append of a check has failed, every later
\* check of that content on the track reports a duplicate, whenever it is
\* made.
C31_EveryLaterCheckDuplicate ==
  \A t \in Tracks : \A i \in unwrittenEntries(t) : \A writeOk \in BOOLEAN :
    checkNow(t, rawCache[t][i].content, writeOk).outcome = "duplicate"

\* C31: a check whose log append fails has already pushed its entry, the
\* log being left as it was; and while such an entry is in the cache and
\* inside the lookback window, a check of its content on that track reports
\* a duplicate and changes nothing, whatever the log write would do.
C31_CachedBeforeWrite ==
  /\ checkLog.outcome = "threw" =>
        LET cache == rawCache[checkLog.mode]
        IN /\ cache # <<>>
           /\ cache[Len(cache)] = [content |-> checkLog.content, detected |-> now]
  /\ \A t \in Tracks : \A i \in unwrittenEntries(t) : \A writeOk \in BOOLEAN :
       rawCache[t][i].detected >= now - currentConfig.dedup.lookbackDays
       => LET r == checkNow(t, rawCache[t][i].content, writeOk)
          IN /\ r.outcome = "duplicate"
             /\ simAtLeast(r.similarity, thresholdOf(currentConfig.dedup, t))
             /\ r.cache = rawCache[t]
             /\ r.file = rawFile[t]

\* The append of TextReport failed on the actionable track, and the next
\* check of TextReport there reported a duplicate.
C31_Witness ==
  /\ checkLog.mode = "actionable"
  /\ checkLog.content = TextReport
  /\ checkLog.prevOutcome = "threw"
  /\ checkLog.outcome = "duplicate"
  /\ rawCache["actionable"] = <<[content |-> TextReport, detected |-> now]>>
  /\ rawFile["actionable"] = <<>>

\* C34: a passing check made on a cache that agrees with its track's log
\* leaves them in agreement, so that after any sequence of passing checks
\* reloading the log yields the (content, detection time) entries the cache
\* holds.
C34_ReloadYieldsCache ==
  [][checkLog'.outcome = "passed" =>
       LET m == checkLog'.mode
           loaded == IF rawInitialized[m] THEN rawCache[m] ELSE loadRawEntries(rawFile[m])
       IN loaded = loadRawEntries(rawFile[m])
          => loadRawEntries(rawFile'[m]) = rawCache'[m]]_vars

\* ------------------------------------------------------ config round trip
\* JSON.stringify of a PipeConfig value, as the object JSON.parse reads back:
\* every property is written, except one whose value is undefined.
stringifyWebhook(w) ==
  [url |-> w.url, enabled |-> Given(w.enabled), provider |-> Given(w.provider),
   chatId |-> IF w.chatId = Undefined THEN AbsentStr ELSE Given(w.chatId)]

stringify(config) ==
  [filter |-> [allowedApps |-> Given(config.filter.allowedApps),
               blockedWindows |-> Given(config.filter.blockedWindows),
               minTextLength |-> Given(config.filter.minTextLength)],
   capture |-> [mode |-> Given(config.capture.mode),
                hotkeyHoldMs |-> Given(config.capture.hotkeyHoldMs)],
   review |-> [enabled |-> Given(config.review.enabled),
               provider |-> Given(config.review.provider),
               model |-> Given(config.review.model),
               apiKey |-> Given(config.review.apiKey),
               failOpen |-> Given(config.review.failOpen)],
   outputLanguage |-> Given(config.outputLanguage),
   notification |->
     [desktop |-> Given(config.notification.desktop),
      webhooks |-> Given([i \in 1..Len(config.notification.webhooks) |->
                            stringifyWebhook(config.notification.webhooks[i])])],
   reminders |-> [enabled |-> Given(config.reminders.enabled),
                  list |-> Given(config.reminders.list)],
   notes |-> [enabled |-> Given(config.notes.enabled),
              folder |-> Given(config.notes.folder)],
   dedup |-> [actionableThreshold |-> Given(config.dedup.actionableThreshold),
              noteworthyThreshold |-> Given(config.dedup.noteworthyThreshold),
              lookbackDays |-> Given(config.dedup.lookbackDays)]]

\* PipeConfig values: each section at its default or at another value of its
\* type, some with padded strings, some outside the schema.
TypedReviews ==
  {DEFAULT_REVIEW_CONFIG,
   [enabled |-> TRUE, provider |-> "gemini", model |-> "flash", apiKey |-> "key",
    failOpen |-> FALSE],
   [enabled |-> TRUE, provider |-> " gemini ", model |-> "flash", apiKey |-> "key",
    failOpen |-> TRUE],
   [enabled |-> TRUE, provider |-> "   ", model |-> "flash", apiKey |-> "key",
    failOpen |-> TRUE]}
TypedReminders ==
  {DEFAULT_REMINDERS_CONFIG,
   [enabled |-> TRUE, list |-> "Work"],
   [enabled |-> TRUE, list |-> " Work "],
   [enabled |-> TRUE, list |-> "   "]}
TypedWebhookLists ==
  {<<>>,
   <<Webhook("u1", FALSE, "generic", Undefined)>>,
   <<Webhook("u1", TRUE, "feishu", Undefined), Webhook("u2", TRUE, "telegram", "42")>>,
   <<Webhook("u2", TRUE, "telegram", Undefined)>>}
TypedDedups ==
  {[DEFAULT_DEDUP_CONFIG EXCEPT !.lookbackDays = 1],
   [DEFAULT_DEDUP_CONFIG EXCEPT !.lookbackDays = 0]}
TypedConfigs ==
  {[DefaultPipeConfig EXCEPT !.review = r, !.reminders = m,
                             !.notification.webhooks = w, !.dedup = d] :
     r \in TypedReviews, m \in TypedReminders, w \in TypedWebhookLists, d \in TypedDedups}

ValidConfigs == {c \in TypedConfigs : IsSchemaValid(c)}

\* No string of the config that the schema trims has leading or trailing
\* whitespace.
isTrimmed(config) ==
  /\ trimStr(config.review.provider) = config.review.provider
  /\ trimStr(config.review.model) = config.review.model
  /\ trimStr(config.outputLanguage) = config.outputLanguage
  /\ trimStr(config.reminders.list) = config.reminders.list
  /\ trimStr(config.notes.folder) = config.notes.folder
  /\ \A i \in 1..Len(config.notification.webhooks) :
       LET w == config.notification.webhooks[i]
       IN /\ trimStr(w.url) = w.url
          /\ w.chatId # Undefined => trimStr(w.chatId) = w.chatId

\* pipe.json holding the serialization of a valid PipeConfig.
RoundTripFiles == {JsonFile(stringify(c)) : c \in ValidConfigs}

InitRoundTrip ==
  /\ InitConfig(RoundTripFiles, TRUE)
  /\ now = 0
  /\ InitDedupStore
  /\ NotifyIdle
  /\ PipeIdle
  /\ LibIdle

RSave == EditConfigFile(RoundTripFiles) /\ UNCHANGED otherThanConfig
RParse == ConfigFileChanged /\ UNCHANGED otherThanConfig

NextRoundTrip == RSave \/ RParse

SpecRoundTrip == InitRoundTrip /\ [][NextRoundTrip]_vars

\* C16 as stated: whenever pipe.json holds the serialization of a valid
\* PipeConfig c and has been parsed, the parse succeeded and the parsed
\* configuration is identical to c.
C16_RoundTripAnyValid ==
  ~fileChanged =>
    \A c \in ValidConfigs :
      configFile = JsonFile(stringify(c)) =>
        (lastReload.outcome # "invalid" /\ currentConfig = c)

\* C16, amended: the same for every valid PipeConfig c whose trimmed strings
\* (review.provider, review.model, outputLanguage, reminders.list,
\* notes.folder, webhook url and chatId) have no leading or trailing
\* whitespace; for any valid c the parse succeeds and yields c with those
\* strings trimmed.
C16_RoundTripTrimmed ==
  ~fileChanged =>
    \A c \in ValidConfigs :
      configFile = JsonFile(stringify(c)) =>
        /\ lastReload.outcome # "invalid"
        /\ isTrimmed(c) => currentConfig = c
        /\ isTrimmed(currentConfig)
        /\ currentConfig.dedup = c.dedup
        /\ currentConfig.notification = c.notification

C16_Witness ==
  /\ ~fileChanged
  /\ lastReload.outcome = "applied"
  /\ \E c \in ValidConfigs :
       /\ isTrimmed(c)
       /\ c.review.enabled
       /\ c.reminders.list = "Work"
       /\ Len(c.notification.webhooks) = 2
       /\ c.dedup.lookbackDays = 1
       /\ configFile = JsonFile(stringify(c))
       /\ currentConfig = c

\* The value every field of a PipeConfig takes when pipe.json does not set it.
DocumentedDefaults ==
  [filter |-> [allowedApps |-> <<>>,
               blockedWindows |-> <<"livepipe", "opencode", "screenpipe">>,
               minTextLength |-> 20],
   capture |-> [mode |-> "always", hotkeyHoldMs |-> 500],
   review |-> [enabled |-> FALSE, provider |-> "", model |-> "", apiKey |-> "",
               failOpen |-> TRUE],
   outputLanguage |-> "zh-CN",
   notification |-> [desktop |-> TRUE, webhooks |-> <<>>],
   reminders |-> [enabled |-> FALSE, list |-> "LivePipe"],
   notes |-> [enabled |-> FALSE, folder |-> "LivePipe"],
   dedup |-> [actionableThreshold |-> 6, noteworthyThreshold |-> 8, lookbackDays |-> 7]]

\* The live configuration is the parse of what pipe.json holds now.
FileIsLoaded ==
  /\ ~fileChanged
  /\ \/ lastReload.outcome \in {"applied", "unchanged"}
     \/ lastReload = NoReload /\ lastConfigEvent = NoEvent /\ ~watcherStarted

missingTakesDefault(raw, value, default) == ~raw.present => value = default

\* C17: once pipe.json is loaded, a file holding {} gives the default of
\* every field (reminders.enabled = false, reminders.list = "LivePipe", ...),
\* and every field the file leaves out has its default whatever the other
\* fields are.
C17_MissingFieldsDefault ==
  FileIsLoaded =>
    /\ configFile.validJson
    /\ configFile = JsonFile(EmptyObject) => currentConfig = DocumentedDefaults
    /\ LET obj == configFile.obj
           d == DocumentedDefaults
           c == currentConfig
       IN /\ missingTakesDefault(obj.filter.allowedApps, c.filter.allowedApps,
                                 d.filter.allowedApps)
          /\ missingTakesDefault(obj.filter.blockedWindows, c.filter.blockedWindows,
                                 d.filter.blockedWindows)
          /\ missingTakesDefault(obj.filter.minTextLength, c.filter.minTextLength,
                                 d.filter.minTextLength)
          /\ missingTakesDefault(obj.capture.mode, c.capture.mode, d.capture.mode)
          /\ missingTakesDefault(obj.capture.hotkeyHoldMs, c.capture.hotkeyHoldMs,
                                 d.capture.hotkeyHoldMs)
          /\ missingTakesDefault(obj.review.enabled, c.review.enabled, d.review.enabled)
          /\ missingTakesDefault(obj.review.provider, c.review.provider, d.review.provider)
          /\ missingTakesDefault(obj.review.model, c.review.model, d.review.model)
          /\ missingTakesDefault(obj.review.apiKey, c.review.apiKey, d.review.apiKey)
          /\ missingTakesDefault(obj.review.failOpen, c.review.failOpen, d.review.failOpen)
          /\ missingTakesDefault(obj.outputLanguage, c.outputLanguage, d.outputLanguage)
          /\ missingTakesDefault(obj.notification.desktop, c.notification.desktop,
                                 d.notification.desktop)
          /\ missingTakesDefault(obj.notification.webhooks, c.notification.webhooks,
                                 d.notification.webhooks)
          /\ missingTakesDefault(obj.reminders.enabled, c.reminders.enabled,
                                 d.reminders.enabled)
          /\ missingTakesDefault(obj.reminders.list, c.reminders.list, d.reminders.list)
          /\ missingTakesDefault(obj.notes.enabled, c.notes.enabled, d.notes.enabled)
          /\ missingTakesDefault(obj.notes.folder, c.notes.folder, d.notes.folder)
          /\ missingTakesDefault(obj.dedup.actionableThreshold,
                                 c.dedup.actionableThreshold, d.dedup.actionableThreshold)
          /\ missingTakesDefault(obj.dedup.noteworthyThreshold,
                                 c.dedup.noteworthyThreshold, d.dedup.noteworthyThreshold)
          /\ missingTakesDefault(obj.dedup.lookbackDays, c.dedup.lookbackDays,
                                 d.dedup.lookbackDays)

C17_Witness ==
  /\ ~fileChanged
  /\ lastReload.outcome = "applied"
  /\ lastReload.before # DocumentedDefaults
  /\ configFile = JsonFile(EmptyObject)
  /\ currentConfig.reminders = [enabled |-> FALSE, list |-> "LivePipe"]
  /\ currentConfig = DocumentedDefaults

\* ------------------------------------------------- library functions alone
\* The rest of the program at rest while one library function is exercised.
CoreIdle ==
  /\ InitConfig({JsonFile(EmptyObject)}, FALSE)
  /\ now = 0
  /\ InitDedupStore
  /\ NotifyIdle
  /\ PipeIdle

ProgramIdle == CoreIdle /\ MoreIdle

coreVars == <<currentConfig, configRest, now, dedupVars, notifyVars, pipeVars>>
otherThanLib == <<coreVars, moreVars>>

\* ------------------------------------------------------- similarity alone
MaxLen == 3
SimChars == {"a", "A", "b", "sp"}
SimStrings == UNION {[1..n -> SimChars] : n \in 0..MaxLen}

InitSimilarity ==
  /\ ProgramIdle
  /\ simA \in SimStrings
  /\ simB \in SimStrings
  /\ simReturned = FALSE
  /\ simResult = NoSim
  /\ BatchIdle
  /\ ChatIdle

CallSimilarity ==
  /\ ~simReturned
  /\ simResult' = similarity(simA, simB)
  /\ simReturned' = TRUE
  /\ UNCHANGED <<simA, simB, batchVars, chatVars, otherThanLib>>

NextSimilarity == CallSimilarity

SpecSimilarity == InitSimilarity /\ [][NextSimilarity]_vars

\* |len(a) - len(b)| / max(len(a), len(b)) > 0.5, or exactly one is empty.
lengthsFarApart(a, b) ==
  \/ (Len(a) = 0) # (Len(b) = 0)
  \/ 2 * Abs(Len(a) - Len(b)) > Max2(Len(a), Len(b))

\* C18 as stated: whenever a and b are equal after lowercasing and whitespace
\* normalization, similarity(a, b) = 1.
C18_NormalizedEqualIsOne ==
  (simReturned /\ normalizeForSim(simA) = normalizeForSim(simB)) => simResult = SimOne

\* C18, amended: whenever a and b are equal after lowercasing and whitespace
\* normalization and their raw lengths are not far apart (neither exactly one
\* empty nor differing by more than half of the longer), similarity(a, b) = 1;
\* in particular similarity(a, a) = 1; when the raw lengths are far apart the
\* result is 0 whatever the content.
C18_NormalizedEqualCloseIsOne ==
  simReturned =>
    /\ (normalizeForSim(simA) = normalizeForSim(simB) /\ ~lengthsFarApart(simA, simB))
         => simResult = SimOne
    /\ simA = simB => simResult = SimOne
    /\ lengthsFarApart(simA, simB) => simResult = SimZero

C18_Witness ==
  /\ simReturned
  /\ simA = <<"a", "sp", "sp">>
  /\ simB = <<"sp", "A">>
  /\ simResult = SimOne

\* C40: for all strings a and b, similarity(a, b) is a defined number
\* between 0 and 1: a quotient with a positive denominator and a numerator
\* from 0 up to the denominator.
C40_SimilarityDefinedInUnitRange ==
  simReturned =>
    /\ simResult.den > 0
    /\ 0 <= simResult.num
    /\ simResult.num <= simResult.den

\* ------------------------------------------------------- batch aggregator
BATCH_INTERVAL_MS == 5000
MAX_TEXT_LENGTH == 2000

MaxEvents == 3
MaxClock == 15000
TickMs == 2500
TextLengths == {800, 1500}

Min2(x, y) == IF x <= y THEN x ELSE y

combinedLength(texts) ==
  LET F[i \in 0..Len(texts)] == IF i = 0 THEN 0 ELSE F[i-1] + texts[i].len
  IN F[Len(texts)]

\* flushCurrentBatch: the texts of the batch it pushes, cut to the budget.
truncateTexts(texts) ==
  LET F[i \in 0..Len(texts)] ==
        IF i = 0 THEN [truncated |-> <<>>, remaining |-> MAX_TEXT_LENGTH]
        ELSE IF F[i-1].remaining <= 0 THEN F[i-1]
             ELSE [truncated |->
                     Append(F[i-1].truncated,
                            [texts[i] EXCEPT !.len = Min2(@, F[i-1].remaining)]),
                   remaining |-> F[i-1].remaining - texts[i].len]
  IN IF combinedLength(texts) > MAX_TEXT_LENGTH THEN F[Len(texts)].truncated ELSE texts

\* The batch flushCurrentBatch pushes and the loop yields at time t.
flushedBatch(texts, t, final) ==
  [texts |-> truncateTexts(texts), events |-> {texts[i].id : i \in 1..Len(texts)},
   at |-> t, final |-> final]

\* The race lost by the pending next() call: nothing awaits its promise any more.
orphanAll(requests) == [i \in 1..Len(requests) |-> "orphan"]

InitBatches ==
  /\ ProgramIdle
  /\ SimIdle
  /\ BatchIdle
  /\ ChatIdle

\* The consumer's first next(): the body runs to the first await of the loop
\* (scheduleFlush arms the timer, eventIterator.next() is called).
AggStart ==
  /\ aggPc = "idle"
  /\ aggPc' = "race"
  /\ flushTimer' = clock + BATCH_INTERVAL_MS
  /\ nextRequests' = <<"live">>
  /\ UNCHANGED <<currentBatch, upstreamDone, clock, delivered, yielded>>

\* The upstream generator yields an event: it answers its oldest next() call.
\* When that call's promise is the one the loop awaits, the event branch
\* runs and the loop goes round to the next race.
UpstreamYields(len) ==
  /\ ~upstreamDone
  /\ nextRequests # <<>>
  /\ Len(delivered) < MaxEvents
  /\ LET id == Len(delivered) + 1
         to == Head(nextRequests)
     IN /\ delivered' = Append(delivered, [id |-> id, len |-> len, at |-> clock, to |-> to])
        /\ IF to = "live"
           THEN /\ currentBatch' = Append(currentBatch, [id |-> id, len |-> len])
                /\ nextRequests' = Append(Tail(nextRequests), "live")
           ELSE /\ nextRequests' = Tail(nextRequests)
                /\ UNCHANGED currentBatch
  /\ UNCHANGED <<aggPc, flushTimer, upstreamDone, clock, yielded>>

\* The upstream generator returns: every queued next() call is answered done.
\* A loop awaiting the race breaks, flushes and yields what is left.
UpstreamEnds ==
  /\ ~upstreamDone
  /\ nextRequests # <<>>
  /\ upstreamDone' = TRUE
  /\ nextRequests' = <<>>
  /\ IF aggPc = "race"
     THEN /\ aggPc' = "done"
          /\ currentBatch' = <<>>
          /\ yielded' = IF currentBatch = <<>> THEN yielded
                        ELSE Append(yielded, flushedBatch(currentBatch, clock, TRUE))
     ELSE UNCHANGED <<aggPc, currentBatch, yielded>>
  /\ UNCHANGED <<flushTimer, clock, delivered>>

\* The setTimeout callback: the flush promise wins the race. The batch, if it
\* has texts, is yielded and the generator is suspended at the yield;
\* otherwise the loop goes round at once. The next() call that lost the race
\* stays queued at the upstream.
TimerFires ==
  /\ aggPc = "race"
  /\ flushTimer # NoTimer
  /\ clock = flushTimer
  /\ IF currentBatch = <<>>
     THEN /\ flushTimer' = clock + BATCH_INTERVAL_MS
          /\ nextRequests' = Append(orphanAll(nextRequests), "live")
          /\ UNCHANGED <<aggPc, currentBatch, yielded>>
     ELSE /\ flushTimer' = NoTimer
          /\ nextRequests' = orphanAll(nextRequests)
          /\ yielded' = Append(yielded, flushedBatch(currentBatch, clock, FALSE))
          /\ currentBatch' = <<>>
          /\ aggPc' = "yield"
  /\ UNCHANGED <<upstreamDone, clock, delivered>>

\* The consumer asks for the next batch: the generator resumes after the
\* yield, finds pendingBatches empty and goes round the loop; a next() call on
\* an upstream that has returned is answered done at once.
AggResume ==
  /\ aggPc = "yield"
  /\ IF upstreamDone
     THEN /\ aggPc' = "done"
          /\ UNCHANGED <<flushTimer, nextRequests>>
     ELSE /\ aggPc' = "race"
          /\ flushTimer' = clock + BATCH_INTERVAL_MS
          /\ nextRequests' = Append(nextRequests, "live")
  /\ UNCHANGED <<currentBatch, upstreamDone, clock, delivered, yielded>>

\* Time passes; a timer that is due fires before the clock moves on.
ClockTick ==
  /\ clock + TickMs <= MaxClock
  /\ (aggPc = "race" /\ flushTimer # NoTimer) => clock + TickMs <= flushTimer
  /\ clock' = clock + TickMs
  /\ UNCHANGED <<aggPc, currentBatch, flushTimer, nextRequests, upstreamDone, delivered,
                 yielded>>

BStart == AggStart /\ UNCHANGED <<simVars, chatVars, otherThanLib>>
BEvent == \E len \in TextLengths :
            UpstreamYields(len) /\ UNCHANGED <<simVars, chatVars, otherThanLib>>
BEnd == UpstreamEnds /\ UNCHANGED <<simVars, chatVars, otherThanLib>>
BTimer == TimerFires /\ UNCHANGED <<simVars, chatVars, otherThanLib>>
BResume == AggResume /\ UNCHANGED <<simVars, chatVars, otherThanLib>>
BTick == ClockTick /\ UNCHANGED <<simVars, chatVars, otherThanLib>>

NextBatches == BStart \/ BEvent \/ BEnd \/ BTimer \/ BResume \/ BTick

SpecBatches == InitBatches /\ [][NextBatches]_vars

inCurrentBatch(id) == \E i \in 1..Len(currentBatch) : currentBatch[i].id = id

\* C19: every event the upstream handed out is either waiting in the current
\* batch, for no longer than one window, or was collected into exactly one
\* yielded batch, yielded within one window of the event or at upstream end.
C19_EveryEventBatched ==
  \A i \in 1..Len(delivered) :
    LET d == delivered[i]
        holders == {k \in 1..Len(yielded) : d.id \in yielded[k].events}
    IN \/ /\ holders = {}
          /\ inCurrentBatch(d.id)
          /\ aggPc = "race"
          /\ clock - d.at <= BATCH_INTERVAL_MS
       \/ /\ Cardinality(holders) = 1
          /\ ~inCurrentBatch(d.id)
          /\ \A k \in holders :
               yielded[k].final \/ yielded[k].at - d.at <= BATCH_INTERVAL_MS

\* ------------------------------------------------------ gemini chat call
MAX_RETRIES == 2

MaxCalls == 2

\* What one fetch of the generateContent endpoint can come to.
Responses ==
  {"network_error", "http_429", "http_401", "http_500", "body_unreadable", "valid_json",
   "invalid_json"}

InitChat ==
  /\ ProgramIdle
  /\ SimIdle
  /\ BatchIdle
  /\ ChatIdle

\* chat(): the body up to the first fetch of the loop.
ChatCalled ==
  /\ chatPc # "fetch"
  /\ Len(chatLog) < MaxCalls
  /\ chatPc' = "fetch"
  /\ attempt' = 0
  /\ httpLog' = <<>>
  /\ chatResult' = "none"
  /\ UNCHANGED chatLog

\* A loop that goes on as long as the text is not valid JSON.
settleAlwaysRetrying(resp, n) ==
  CASE resp = "network_error" -> [pc |-> "threw", result |-> "network_error"]
    [] resp = "http_429" -> [pc |-> "threw", result |-> "rate_limited"]
    [] resp = "http_401" -> [pc |-> "threw", result |-> "auth_failed"]
    [] resp = "http_500" -> [pc |-> "threw", result |-> "http_error"]
    [] resp = "body_unreadable" -> [pc |-> "threw", result |-> "json_rejected"]
    [] resp = "valid_json" -> [pc |-> "returned", result |-> "valid"]
    [] resp = "invalid_json" ->
         IF n < MAX_RETRIES + 2 THEN [pc |-> "fetch", result |-> "none"]
         ELSE [pc |-> "returned", result |-> "invalid"]

\* How the call ends on a response; pc "fetch" when the loop continues.
settle(resp, n) ==
  CASE resp = "network_error" -> [pc |-> "threw", result |-> "network_error"]
    [] resp = "http_429" -> [pc |-> "threw", result |-> "rate_limited"]
    [] resp = "http_401" -> [pc |-> "threw", result |-> "auth_failed"]
    [] resp = "http_500" -> [pc |-> "threw", result |-> "http_error"]
    [] resp = "body_unreadable" -> [pc |-> "threw", result |-> "json_rejected"]
    [] resp = "valid_json" -> [pc |-> "returned", result |-> "valid"]
    [] resp = "invalid_json" ->
         IF n < MAX_RETRIES THEN [pc |-> "fetch", result |-> "none"]
         ELSE [pc |-> "returned", result |-> "invalid"]

\* One turn of the for loop, from the settling of fetch to the next fetch,
\* the return or the throw.
FetchSettles(resp) ==
  /\ chatPc = "fetch"
  /\ httpLog' = Append(httpLog, resp)
  /\ \E end \in {settle(resp, attempt)} :
       /\ chatPc' = end.pc
       /\ chatResult' = end.result
       /\ attempt' = IF end.pc = "fetch" THEN attempt + 1 ELSE attempt
       /\ chatLog' = IF end.pc = "fetch" THEN chatLog
                     ELSE Append(chatLog, [requests |-> Len(httpLog) + 1,
                                           result |-> end.result])

HCall == ChatCalled /\ UNCHANGED <<simVars, batchVars, otherThanLib>>
HSettle == \E resp \in Responses :
             FetchSettles(resp) /\ UNCHANGED <<simVars, batchVars, otherThanLib>>

NextChat == HCall \/ HSettle

SpecChat == InitChat /\ [][NextChat]_vars

\* The HTTP requests the call in progress (or the last call) has issued.
requestsIssued == Len(httpLog) + (IF chatPc = "fetch" THEN 1 ELSE 0)

\* C20: one chat call issues at most 3 requests; every request but the first
\* follows a 2xx response without valid JSON; there are at most 2 repeats;
\* and the third response ends the call, which returns the text when the
\* response is 2xx even if it is still not valid JSON.
C20_AtMostThreeRequests ==
  /\ requestsIssued <= 3
  /\ \A i \in 1..(requestsIssued - 1) : httpLog[i] = "invalid_json"
  /\ attempt <= 2
  /\ chatPc # "idle" => attempt = requestsIssued - 1
  /\ Len(httpLog) = 3 => chatPc \in {"returned", "threw"}
  /\ (Len(httpLog) = 3 /\ httpLog[3] = "invalid_json") =>
       (chatPc = "returned" /\ chatResult = "invalid")
  /\ \A k \in 1..Len(chatLog) : chatLog[k].requests <= 3

C20_Witness ==
  /\ chatPc = "returned"
  /\ httpLog = <<"invalid_json", "invalid_json", "invalid_json">>
  /\ chatResult = "invalid"
  /\ attempt = 2

\* ---------------------------------------------------------------------------
\* runJxaScript: the scripting bridge of the reminders and the notes module
\* (the two copies differ only in the prefix of the directory name and of the
\* error messages).  Invocations may overlap: the function returns a promise
\* and the directory lives until the execFile callback.
\* ---------------------------------------------------------------------------

otherThanJxa == <<coreVars, simVars, batchVars, chatVars, classifyVars, changeLog, clipVars>>

InitJxa ==
  /\ CoreIdle
  /\ SimIdle /\ BatchIdle /\ ChatIdle
  /\ ClassifyIdle /\ ChangeIdle /\ ClipIdle
  /\ JxaIdle

\* What the synchronous part of runJxaScript can do: mkdtempSync throws,
\* writeFileSync throws, execFile throws, or the process is launched.
SyncOutcomes == {"mkdtemp_fails", "write_fails", "launch_fails", "launched"}

\* What the execFile callback can receive: an error (non-zero exit, timeout
\* after EXEC_TIMEOUT_MS, more output than maxBuffer), blank output, output
\* that is not JSON, or a JSON response.
CallbackOutcomes == {"error", "empty", "invalid", "ok"}

\* runJxaScript up to its return.  mkdtempSync and writeFileSync run before
\* the promise is made and outside every try: when one throws, the call
\* throws.  A throwing execFile is caught: the directory is removed and the
\* promise rejects.
runJxaScript(i, o) ==
  /\ jxaPc[i] = "idle"
  /\ jxaOutcome' = [jxaOutcome EXCEPT ![i] = IF o = "launched" THEN "none" ELSE o]
  /\ CASE o = "mkdtemp_fails" ->
            /\ tmpDirs' = tmpDirs
            /\ jxaPc' = [jxaPc EXCEPT ![i] = "threw"]
       [] o = "write_fails" ->
            /\ tmpDirs' = tmpDirs \cup {i}
            /\ jxaPc' = [jxaPc EXCEPT ![i] = "threw"]
       [] o = "launch_fails" ->
            /\ tmpDirs' = (tmpDirs \cup {i}) \ {i}
            /\ jxaPc' = [jxaPc EXCEPT ![i] = "rejected"]
       [] o = "launched" ->
            /\ tmpDirs' = tmpDirs \cup {i}
            /\ jxaPc' = [jxaPc EXCEPT ![i] = "running"]

\* The execFile callback: reject or resolve, and in every case the finally
\* block removes the directory.
execFileCallback(i, o) ==
  /\ jxaPc[i] = "running"
  /\ jxaOutcome' = [jxaOutcome EXCEPT ![i] = o]
  /\ jxaPc' = [jxaPc EXCEPT ![i] = IF o = "ok" THEN "resolved" ELSE "rejected"]
  /\ tmpDirs' = tmpDirs \ {i}

JRun == \E i \in Invocations, o \in SyncOutcomes :
  runJxaScript(i, o) /\ UNCHANGED otherThanJxa

JCallback == \E i \in Invocations, o \in CallbackOutcomes :
  execFileCallback(i, o) /\ UNCHANGED otherThanJxa

NextJxa == JRun \/ JCallback

SpecJxa == InitJxa /\ [][NextJxa]_vars

jxaFinished(i) == jxaPc[i] \in {"resolved", "rejected", "threw"}

\* C21: after every invocation of the scripting bridge, whatever its outcome
\* (success, script error, timeout, invalid output, failure to write the
\* script or to launch the process), the temporary directory made for it is
\* gone.
C21_TempRemovedWhateverOutcome ==
  \A i \in Invocations : jxaFinished(i) => i \notin tmpDirs

\* ---------------------------------------------------------------------------
\* The reminders sync inside the pipeline
\* ---------------------------------------------------------------------------

\* C22: when the reminders sync of an actionable intent fails, the failure
\* is reported among the pass's errors and the pass goes on: the task was
\* recorded in the task log, the notification for that intent is dispatched,
\* and the pass does not end in an error because of it.
C22_RemindersFailureDoesNotBlock ==
  \A p \in Passes :
    \A k \in 1..Len(passLog[p].errors) :
      LET x == passLog[p].errors[k]
      IN /\ x.actionable
         /\ SeqContains(passLog[p].recorded, x)
         /\ SeqContains(passLog[p].notified, x)
         /\ passLog[p].ended # "error"

C22_Witness ==
  /\ pc["poll"] = "notify"
  /\ passLog["poll"].errors = <<Intent(TextAbcd, TRUE, FALSE)>>
  /\ passLog["poll"].recorded = <<Intent(TextAbcd, TRUE, FALSE)>>
  /\ passLog["poll"].notified = <<Intent(TextAbcd, TRUE, FALSE)>>

\* ---------------------------------------------------------------------------
\* The two review stages inside the pipeline: hotkey-triggered passes under
\* a configuration with the review enabled, the review model answering
\* anything, unparsable text included.
\* ---------------------------------------------------------------------------

ReviewFiles ==
  {JsonFile([EmptyObject EXCEPT !.review = ReviewOn]),
   JsonFile([EmptyObject EXCEPT !.review = [ReviewOn EXCEPT !.failOpen = Given(FALSE)]]),
   JsonFile([EmptyObject EXCEPT !.review = [ReviewOn EXCEPT !.provider = Given("openai"),
                                                            !.failOpen = Given(FALSE)]])}

InitReview ==
  /\ InitConfig(ReviewFiles, FALSE)
  /\ now = 0
  /\ InitDedupStore
  /\ NotifyIdle
  /\ LibIdle
  /\ isRunning = FALSE
  /\ pollLoops = 0
  /\ lastStart = "none"
  /\ stopRequested = FALSE
  /\ lastText = <<>>
  /\ pc = [p \in Passes |-> "idle"]
  /\ cur = [p \in Passes |-> NewCur]
  /\ passLog = [p \in Passes |-> NewLog]

PReviewAnswers == \E p \in Passes, output \in ReviewAnswers, taskWriteOk \in BOOLEAN,
                     taskWriteOkAgain \in BOOLEAN :
                    ReviewReturns(p, output, taskWriteOk, taskWriteOkAgain)

NextReview ==
  \/ TriggerOnce
  \/ PFetch
  \/ PDetectFails
  \/ PDetect
  \/ PReviewAnswers
  \/ PReminders
  \/ PNotify
  \/ PNotes

SpecReview == InitReview /\ [][NextReview]_vars

nothingExecuted(log) ==
  /\ log.recorded = <<>>
  /\ log.notified = <<>>
  /\ log.noted = <<>>

C30_UnparsableStage2KeepsStage1 ==
  \A p \in Passes :
    LET log == passLog[p]
    IN (log.stage2Called /\ log.reviewOut = "garbage" /\ pc[p] # "review2")
       => /\ log.reviewEnd = "returned"
          /\ log.reviewed = log.afterStage1
          /\ log.reviewed.actionable = log.afterStage1.actionable
          /\ log.reviewed.noteworthy = log.afterStage1.noteworthy
          /\ log.reviewed.content = log.afterStage1.content
          /\ log.reviewed.due_time = log.afterStage1.due_time

C30_Witness ==
  /\ passLog["hotkey"].stage2Called
  /\ passLog["hotkey"].reviewOut = "garbage"
  /\ passLog["hotkey"].reviewEnd = "returned"
  /\ passLog["hotkey"].reviewed = Intent(TextAbcd, TRUE, TRUE)
  /\ passLog["hotkey"].recorded = <<Intent(TextAbcd, TRUE, TRUE)>>

\* ---------------------------------------------------------------------------
\* Change detection on its own: detectChange called with one combined text
\* after another, lastText being the baseline it keeps between calls.
\* ---------------------------------------------------------------------------

MaxReplaced == 3
TextSizes == {1, 7, 20}

LineNames ==
  <<"l01", "l02", "l03", "l04", "l05", "l06", "l07", "l08", "l09", "l10",
    "l11", "l12", "l13", "l14", "l15", "l16", "l17", "l18", "l19", "l20">>
OtherNames ==
  <<"m01", "m02", "m03", "m04", "m05", "m06", "m07", "m08", "m09", "m10",
    "m11", "m12", "m13", "m14", "m15", "m16", "m17", "m18", "m19", "m20">>

\* A screen of n lines of which the first k differ from the usual ones, read
\* top to bottom or bottom to top.
ScreenOf(n, k, reversed) ==
  LET line(i) == IF i <= k THEN OtherNames[i] ELSE LineNames[i]
  IN [i \in 1..n |-> IF reversed THEN line(n + 1 - i) ELSE line(i)]

\* The same text with blank lines before it, after it, or after its first
\* line.
Padded(text, pad) ==
  CASE pad = "before" -> <<"">> \o text
    [] pad = "after" -> text \o <<"">>
    [] pad = "inside" -> <<text[1], "">> \o Tail(text)
    [] OTHER -> text

ChangeTexts ==
  {<<>>, <<"">>, <<"", "">>} \cup
  {Padded(ScreenOf(n, k, reversed), pad) :
     n \in TextSizes, k \in 0..MaxReplaced, reversed \in BOOLEAN,
     pad \in {"none", "before", "after", "inside"}}

otherThanChange ==
  <<currentConfig, configRest, now, dedupVars, notifyVars, isRunning, pollLoops, lastStart,
    stopRequested, pc, cur, passLog, simVars, batchVars, chatVars, jxaVars, classifyVars,
    clipVars>>

InitChange ==
  /\ CoreIdle
  /\ SimIdle /\ BatchIdle /\ ChatIdle
  /\ JxaIdle /\ ClassifyIdle /\ ClipIdle
  /\ ChangeIdle

\* One call of detectChange(newText) from the polling loop.
DetectChangeCalled(newText) ==
  \E change \in {detectChange(lastText, newText)} :
    /\ lastText' = change.lastText
    /\ changeLog' = [text |-> newText, before |-> lastText, changed |-> change.changed,
                     reason |-> change.reason]
    /\ UNCHANGED otherThanChange

NextChange == \E newText \in ChangeTexts : DetectChangeCalled(newText)

SpecChange == InitChange /\ [][NextChange]_vars

\* The ratio as the specification gives it, 1 - |A \cap B| / max(|A|, |B|, 1)
\* over the sets of non-blank lines, compared with 0.15 without rounding.
ratioAtLeastThreshold(a, b) ==
  LET A == {a[i] : i \in 1..Len(a)} \ {""}
      B == {b[i] : i \in 1..Len(b)} \ {""}
      larger == IF Cardinality(A) >= Cardinality(B) THEN Cardinality(A) ELSE Cardinality(B)
      most == IF larger >= 1 THEN larger ELSE 1
  IN 100 * (most - Cardinality(A \cap B)) >= 15 * most

\* C24: a new text that is not blank is forwarded to classification exactly
\* when its change ratio against the baseline is at least 0.15, and after
\* the detection the baseline is that text (without the blank space around
\* it) whether it was forwarded or not.
C24_ForwardedIffRatioReached ==
  (changeLog.reason # "none" /\ trimText(changeLog.text) # <<>>)
  => /\ changeLog.changed <=> ratioAtLeastThreshold(changeLog.before, changeLog.text)
     /\ lastText = trimText(changeLog.text)

C24_Witness ==
  /\ changeLog.reason = "below-threshold"
  /\ ~changeLog.changed
  /\ changeLog.before = ScreenOf(7, 0, FALSE)
  /\ changeLog.text = ScreenOf(7, 1, FALSE)
  /\ lastText = ScreenOf(7, 1, FALSE)

\* ---------------------------------------------------------------------------
\* The character budget of a batch
\* ---------------------------------------------------------------------------

\* The length event id had when the upstream handed it out.
receivedLength(id) ==
  LET i == CHOOSE k \in 1..Len(delivered) : delivered[k].id = id
  IN delivered[i].len

accumulatedLength(batch) ==
  LET ids == batch.events
      F[i \in 0..Len(delivered)] ==
        IF i = 0 THEN 0
        ELSE F[i-1] + (IF delivered[i].id \in ids THEN delivered[i].len ELSE 0)
  IN F[Len(delivered)]

\* C25: a yielded batch whose accumulated texts were longer than 2000
\* characters in total holds only whole texts, each as long as it was
\* received, and at most 2000 characters of them.
C25_WholeTextsWithinBudget ==
  \A k \in 1..Len(yielded) :
    accumulatedLength(yielded[k]) > MAX_TEXT_LENGTH =>
      /\ combinedLength(yielded[k].texts) <= MAX_TEXT_LENGTH
      /\ \A i \in 1..Len(yielded[k].texts) :
           yielded[k].texts[i].len = receivedLength(yielded[k].texts[i].id)

\* ---------------------------------------------------------------------------
\* The classifier: detectIntent from the answer of the local model on, with
\* extractJson, normalizeIntentResult and isGarbled.
\*
\* A content is a sequence of words, each with the number of its characters
\* that are left (substring may cut the last one). The words stand for the
\* phrases the patterns look for:
\*   "buy now"      NOISE_PATTERNS            (between word boundaries)
\*   "please"       TASK_SIGNAL_PATTERNS      (between word boundaries)
\*   "asap"         URGENT_PATTERNS           (between word boundaries)
\*   "(completed)"  NO_ACTION_PATTERNS
\*   "canceled", "moved to"                   hasStandaloneCancellation
\*   "decision"     NOTEWORTHY_SIGNAL_PATTERNS
\*   "link"         https://github.com/5unnyWind/tradins, which no pattern matches
\*   "filler"       a hundred letters no pattern matches
\*   "junk"         seven characters isGarbled does not count as readable
\*   "sp"           one space
\* ---------------------------------------------------------------------------

MaxTokens == 3
CONTENT_LIMIT == 200

Words ==
  {"sp", "filler", "buy now", "please", "asap", "(completed)", "canceled", "moved to",
   "decision", "link", "junk"}

WordLength(w) ==
  CASE w = "sp" -> 1
    [] w = "filler" -> 100
    [] w = "buy now" -> 7
    [] w = "please" -> 6
    [] w = "asap" -> 4
    [] w = "(completed)" -> 11
    [] w = "canceled" -> 8
    [] w = "moved to" -> 8
    [] w = "decision" -> 8
    [] w = "link" -> 36
    [] w = "junk" -> 7

Word(w) == [w |-> w, n |-> WordLength(w)]

isWhole(t) == t.n = WordLength(t.w)

\* Only the filler is long enough to be cut by the limit; what is left of
\* it is letters.
startsWithWordChar(t) == t.w \notin {"sp", "(completed)", "junk"}
endsWithWordChar(t) == t.w \notin {"sp", "(completed)", "junk"}

\* The characters of t that isGarbled's class [\w\s.,;:!?] and the CJK
\* ranges accept: not the parentheses, not the slashes of the link.
readableChars(t) ==
  IF ~isWhole(t) THEN t.n
  ELSE CASE t.w = "junk" -> 0
         [] t.w = "(completed)" -> 9
         [] t.w = "link" -> 32
         [] OTHER -> t.n

textLength(content) ==
  LET F[i \in 0..Len(content)] == IF i = 0 THEN 0 ELSE F[i-1] + content[i].n
  IN F[Len(content)]

readableLength(content) ==
  LET F[i \in 0..Len(content)] == IF i = 0 THEN 0 ELSE F[i-1] + readableChars(content[i])
  IN F[Len(content)]

\* content.substring(0, limit)
substring(content, limit) ==
  LET F[i \in 0..Len(content)] ==
        IF i = 0 THEN [out |-> <<>>, used |-> 0]
        ELSE IF F[i-1].used >= limit THEN F[i-1]
             ELSE IF F[i-1].used + content[i].n <= limit
                  THEN [out |-> Append(F[i-1].out, content[i]),
                        used |-> F[i-1].used + content[i].n]
                  ELSE [out |-> Append(F[i-1].out,
                                       [content[i] EXCEPT !.n = limit - F[i-1].used]),
                        used |-> limit]
  IN F[Len(content)].out

\* content.trim()
trimContent(content) ==
  LET inked == {i \in 1..Len(content) : content[i].w # "sp"}
  IN IF inked = {} THEN <<>> ELSE SubSeq(content, SetMin(inked), SetMax(inked))

\* A pattern without \b finds its phrase anywhere.
hasPhrase(content, w) ==
  \E i \in 1..Len(content) : content[i].w = w /\ isWhole(content[i])

\* A pattern of the form \b(...)\b finds its phrase only between characters
\* that are not word characters, or at the ends.
hasBoundedPhrase(content, w) ==
  \E i \in 1..Len(content) :
    /\ content[i].w = w
    /\ isWhole(content[i])
    /\ i = 1 \/ ~endsWithWordChar(content[i-1])
    /\ i = Len(content) \/ ~startsWithWordChar(content[i+1])

hasStandaloneCancellation(content) ==
  hasPhrase(content, "canceled") /\ ~hasPhrase(content, "moved to")

isGarbled(content) ==
  \/ textLength(content) < 2
  \/ 2 * readableLength(content) < textLength(content)

\* A normalizeIntentResult that keeps the due time of an intent that is not
\* actionable.
normalizeKeepingDueTime(result) ==
  LET normalizedContent == trimContent(result.content)
      hasTaskSignal == hasBoundedPhrase(normalizedContent, "please")
      actionable ==
        IF hasPhrase(normalizedContent, "(completed)")
           \/ hasStandaloneCancellation(normalizedContent)
        THEN FALSE ELSE result.actionable
      noteworthy == result.noteworthy /\ hasPhrase(normalizedContent, "decision")
  IN IF normalizedContent = <<>> THEN AllFalse
     ELSE IF hasBoundedPhrase(normalizedContent, "buy now") /\ ~hasTaskSignal
          THEN [AllFalse EXCEPT !.content = normalizedContent]
          ELSE [actionable |-> actionable,
                noteworthy |-> noteworthy,
                content |-> normalizedContent,
                due_time |-> result.due_time,
                urgent |-> /\ hasBoundedPhrase(normalizedContent, "asap")
                           /\ (actionable \/ noteworthy)]

\* A normalizeIntentResult without the noteworthy gate.
normalizeTrustingNoteworthy(result) ==
  LET normalizedContent == trimContent(result.content)
      hasTaskSignal == hasBoundedPhrase(normalizedContent, "please")
      actionable ==
        IF hasPhrase(normalizedContent, "(completed)")
           \/ hasStandaloneCancellation(normalizedContent)
        THEN FALSE ELSE result.actionable
      noteworthy == result.noteworthy
  IN IF normalizedContent = <<>> THEN AllFalse
     ELSE IF hasBoundedPhrase(normalizedContent, "buy now") /\ ~hasTaskSignal
          THEN [AllFalse EXCEPT !.content = normalizedContent]
          ELSE [actionable |-> actionable,
                noteworthy |-> noteworthy,
                content |-> normalizedContent,
                due_time |-> IF actionable THEN result.due_time ELSE Null,
                urgent |-> /\ hasBoundedPhrase(normalizedContent, "asap")
                           /\ (actionable \/ noteworthy)]

normalizeIntentResult(result) ==
  LET normalizedContent == trimContent(result.content)
      hasTaskSignal == hasBoundedPhrase(normalizedContent, "please")
      actionable ==
        IF hasPhrase(normalizedContent, "(completed)")
           \/ hasStandaloneCancellation(normalizedContent)
        THEN FALSE ELSE result.actionable
      noteworthy == result.noteworthy /\ hasPhrase(normalizedContent, "decision")
  IN IF normalizedContent = <<>> THEN AllFalse
     ELSE IF hasBoundedPhrase(normalizedContent, "buy now") /\ ~hasTaskSignal
          THEN [AllFalse EXCEPT !.content = normalizedContent]
          ELSE [actionable |-> actionable,
                noteworthy |-> noteworthy,
                content |-> normalizedContent,
                due_time |-> IF actionable THEN result.due_time ELSE Null,
                urgent |-> /\ hasBoundedPhrase(normalizedContent, "asap")
                           /\ (actionable \/ noteworthy)]

\* The value of a JSON field: true, false, absent, or the string "false"
\* (written "s:false"); for due_time null, the string "null" or a time.
JsonFlags == {"true", "false", "absent", "s:false"}
JsonDues == {"null", "s:null", "s:2026-11-04T09:00"}

\* Boolean(v): an absent field and false are falsy, a non-empty string is not.
Boolean(v) == v \in {"true", "s:false"}

\* extractJson on an answer that holds {...}: JSON.parse succeeds (strict)
\* or throws and the fields are picked out one by one (malformed).
extractJson(reply) ==
  IF reply.shape = "strict"
  THEN [found |-> TRUE,
        intent |-> [actionable |-> Boolean(reply.actionable),
                    noteworthy |-> Boolean(reply.noteworthy),
                    content |-> substring(reply.content, CONTENT_LIMIT),
                    due_time |-> IF reply.due \in {"null", "s:null"} THEN Null ELSE reply.due,
                    urgent |-> Boolean(reply.urgent)]]
  ELSE IF reply.shape = "malformed" /\ reply.actionable \in {"true", "false"}
       THEN [found |-> TRUE,
             intent |-> [actionable |-> reply.actionable = "true",
                         noteworthy |-> reply.noteworthy = "true",
                         content |-> reply.content,
                         due_time |-> IF reply.due = "null" THEN Null ELSE reply.due,
                         urgent |-> reply.urgent = "true"]]
       ELSE [found |-> FALSE, intent |-> AllFalse]

NullResult == [NoResult EXCEPT !.returned = "null"]

\* detectIntent from `await fetch(...)` on.
detectIntent(reply) ==
  CASE reply.shape \in {"fetch_rejects", "http_error", "no_json"} -> NullResult
    [] reply.shape = "empty" -> [NoResult EXCEPT !.returned = "intent"]
    [] OTHER ->
         LET result == extractJson(reply)
             normalizedResult == normalizeIntentResult(result.intent)
         IN IF ~result.found THEN NullResult
            ELSE [returned |-> "intent",
                  intent |-> IF /\ normalizedResult.actionable \/ normalizedResult.noteworthy
                                /\ isGarbled(normalizedResult.content)
                             THEN AllFalse ELSE normalizedResult,
                  normalizeRan |-> TRUE,
                  extracted |-> result.intent,
                  normalized |-> normalizedResult]

Contents ==
  UNION {[1..k -> {Word(w) : w \in Words}] : k \in 0..MaxTokens}

Replies ==
  {[NoReply EXCEPT !.shape = s] : s \in {"fetch_rejects", "http_error", "empty", "no_json"}}
  \cup
  [shape : {"strict", "malformed"}, actionable : JsonFlags, noteworthy : JsonFlags,
   content : Contents, due : JsonDues, urgent : {"true", "false"}]

otherThanClassifier == <<coreVars, simVars, batchVars, chatVars, jxaVars, changeLog,
                         clipVars>>

\* detectIntent was called with a batch of cleaned text; either the text is
\* shorter than 5 characters or the model is asked and its answer awaited.
InitClassifier ==
  /\ CoreIdle
  /\ SimIdle /\ BatchIdle /\ ChatIdle
  /\ JxaIdle /\ ChangeIdle /\ ClipIdle
  /\ \/ llmReply = NoReply /\ detectPc = "too_short"
     \/ llmReply \in Replies /\ detectPc = "awaiting"
  /\ detectResult = NoResult

TextTooShort ==
  /\ detectPc = "too_short"
  /\ detectPc' = "returned"
  /\ detectResult' = NullResult
  /\ UNCHANGED <<llmReply, otherThanClassifier>>

ClassifierReturns ==
  /\ detectPc = "awaiting"
  /\ detectPc' = "returned"
  /\ detectResult' = detectIntent(llmReply)
  /\ UNCHANGED <<llmReply, otherThanClassifier>>

NextClassifier == TextTooShort \/ ClassifierReturns

SpecClassifier == InitClassifier /\ [][NextClassifier]_vars

returnedIntent == detectPc = "returned" /\ detectResult.returned = "intent"

PlainLink == <<Word("link")>>
NoiseLink == <<Word("buy now"), Word("sp"), Word("link")>>

\* C23: normalizeIntentResult returns noteworthy=true, with actionable still
\* false, for content that is a plain link even when noteworthy came in
\* false; a link whose content also matches a noise pattern stays
\* noteworthy=false.
C23_PlainLinkNoteworthy ==
  (detectPc = "returned" /\ detectResult.normalizeRan /\ ~detectResult.extracted.actionable)
  => /\ trimContent(detectResult.extracted.content) = PlainLink
          => detectResult.normalized.noteworthy /\ ~detectResult.normalized.actionable
     /\ trimContent(detectResult.extracted.content) = NoiseLink
          => ~detectResult.normalized.noteworthy /\ ~detectResult.normalized.actionable

\* C26: every IntentResult the classifier returns with actionable=false has
\* due_time=null, whichever path returned it: the empty answer, the noise
\* override, the no-action and cancellation rule, a model that said false,
\* garbled content.
C26_NotActionableHasNoDueTime ==
  returnedIntent =>
    (~detectResult.intent.actionable => detectResult.intent.due_time = Null)

C26_Witness ==
  /\ returnedIntent
  /\ llmReply.shape = "malformed"
  /\ detectResult.extracted.actionable
  /\ detectResult.extracted.due_time = "s:2026-11-04T09:00"
  /\ detectResult.extracted.content = <<Word("canceled")>>
  /\ ~detectResult.intent.actionable
  /\ detectResult.intent.due_time = Null

\* C27 as stated: the result has noteworthy=true only if the model reported
\* noteworthy=true and the content matches a decision/reference-signal
\* pattern.
C27_NoteworthyOnlyIfReportedTrue ==
  (returnedIntent /\ detectResult.intent.noteworthy)
  => /\ llmReply.noteworthy = "true"
     /\ hasPhrase(detectResult.intent.content, "decision")

\* C27, amended: the result has noteworthy=true only if the content it
\* carries matches a decision/reference-signal pattern and the model's
\* noteworthy field was true or, in an answer that parsed as JSON, a
\* non-empty string.
C27_NoteworthyOnlyIfTruthyAndSignal ==
  (returnedIntent /\ detectResult.intent.noteworthy)
  => /\ hasPhrase(detectResult.intent.content, "decision")
     /\ \/ llmReply.noteworthy = "true"
        \/ llmReply.noteworthy = "s:false" /\ llmReply.shape = "strict"

C27_Witness ==
  /\ returnedIntent
  /\ llmReply.shape = "strict"
  /\ llmReply.noteworthy = "true"
  /\ llmReply.actionable = "false"
  /\ llmReply.content = <<Word("sp"), Word("decision"), Word("sp")>>
  /\ detectResult.intent.noteworthy
  /\ detectResult.intent.content = <<Word("decision")>>

\* C28: every IntentResult the classifier returns has a content of at most
\* 200 characters, whether the answer parsed as JSON or its fields were
\* recovered one by one.
C28_ContentAtMost200 ==
  returnedIntent => textLength(detectResult.intent.content) <= CONTENT_LIMIT
\* ---------------------------------------------------------------------------
\* Hot reload of the review settings while passes run: hotkey-only capture,
\* the user saving pipe.json with another api key, model or failOpen value
\* at any moment, passes triggered at any moment.
\* ---------------------------------------------------------------------------

HotkeyOnly == [NoRawCapture EXCEPT !.mode = Given("hotkey")]
ReloadFiles ==
  {JsonFile([EmptyObject EXCEPT !.capture = HotkeyOnly, !.review = r]) :
     r \in {ReviewOn,
            [ReviewOn EXCEPT !.failOpen = Given(FALSE)],
            [ReviewOn EXCEPT !.apiKey = Given("k2"), !.model = Given("m2")]}}

InitReload ==
  /\ InitConfig(ReloadFiles, FALSE)
  /\ now = 0
  /\ InitDedupStore
  /\ NotifyIdle
  /\ LibIdle
  /\ isRunning = FALSE
  /\ pollLoops = 0
  /\ lastStart = "none"
  /\ stopRequested = FALSE
  /\ lastText = <<>>
  /\ pc = [p \in Passes |-> "idle"]
  /\ cur = [p \in Passes |-> NewCur]
  /\ passLog = [p \in Passes |-> NewLog]

REdit == EditConfigFile(ReloadFiles) /\ UNCHANGED otherThanConfig

\* The writes to tasks.md succeed here; their failure is exercised in
\* SpecReview.
RDetect == \E p \in Passes, intent \in PipeIntents : DetectReturns(p, intent, TRUE, TRUE, TRUE)
RReview == \E p \in Passes, output \in ReviewOutputs : ReviewReturns(p, output, TRUE, TRUE)

NextReload ==
  \/ StartPipeline
  \/ REdit
  \/ CChanged
  \/ TriggerOnce
  \/ PFetch
  \/ RDetect
  \/ RReview
  \/ PReminders
  \/ PNotify
  \/ PNotes

SpecReload == InitReload /\ [][NextReload]_vars

providerOf(review) == [apiKey |-> review.apiKey, model |-> review.model]

\* C33: the cached review provider is never one built from other settings
\* than the live ones, and a pass that selects its provider gets the one
\* built from the api key and model in force at that moment, so that after
\* a hot reload of a review field no later pass reviews with a provider
\* built from the old key or model.
C33_ProviderFromLiveSettings ==
  [][/\ reviewProvider' # NoProvider => reviewProvider' = providerOf(reviewConfig')
     /\ \A p \in Passes :
          (pc[p] = "detect" /\ pc'[p] = "review1")
          => passLog'[p].selected.provider = providerOf(reviewConfig)]_vars

\* A pass reviews with the provider of the new key k2 after a reload that
\* replaced the key k1, under which an earlier pass had been reviewed.
C33_Witness ==
  /\ lastReload.outcome = "applied"
  /\ lastReload.before.review.apiKey = "k1"
  /\ reviewConfig.apiKey = "k2"
  /\ Len(rawCache["actionable"]) = 2
  /\ pc["hotkey"] = "review1"
  /\ passLog["hotkey"].selected.provider = [apiKey |-> "k2", model |-> "m2"]

\* C37: the fail-open decision a pass takes when its review call fails is
\* the one of the review.failOpen value that was in force when the pass
\* selected its review provider.
C37_FailOpenAsSelected ==
  \A p \in Passes :
    passLog[p].reviewOut = "error" =>
      (passLog[p].failOpen = "open") = passLog[p].selected.failOpen

\* ---------------------------------------------------------------------------
\* The clipboard monitor: start and stop called at any moment, the loop
\* suspended at pbpaste, at the classifier, at processIntent or in its sleep.
\* ---------------------------------------------------------------------------

MaxSequence == 2
\* What pbpaste may yield: nothing (or less than minTextLength), or a text.
ClipTexts == {"", "t1", "t2"}

otherThanClip == <<coreVars, simVars, batchVars, chatVars, jxaVars, classifyVars, changeLog>>

InitClipboard ==
  /\ CoreIdle
  /\ SimIdle /\ BatchIdle /\ ChatIdle
  /\ JxaIdle /\ ClassifyIdle /\ ChangeIdle
  /\ ClipIdle

Monitor ==
  [running |-> running, stopRequested |-> clipStopRequested, loopPromise |-> loopPromise,
   loopPc |-> loopPc]

idleLoops(m) == {i \in ClipLoops : m.loopPc[i] = "none"}

\* runClipboardLoop up to `await readClipboard()` of its first iteration.
runClipboardLoop(m, i) ==
  [m EXCEPT !.running = TRUE, !.stopRequested = FALSE, !.loopPc[i] = "read"]

\* A startClipboardMonitor without the test of running and loopPromise.
startClipboardMonitorUnguarded(m) ==
  IF idleLoops(m) = {} THEN m
  ELSE [runClipboardLoop(m, SetMin(idleLoops(m))) EXCEPT !.loopPromise = TRUE]

startClipboardMonitor(m) ==
  IF m.running \/ m.loopPromise THEN [m EXCEPT !.stopRequested = FALSE]
  ELSE IF idleLoops(m) = {} THEN m
       ELSE [runClipboardLoop(m, SetMin(idleLoops(m))) EXCEPT !.loopPromise = TRUE]

\* A loop that goes round whatever the flag says.
whileTestForever(m, i) == [m EXCEPT !.loopPc[i] = "read"]

\* `while (!stopRequested)` as met after a sleep: the next iteration, or the
\* finally block.
whileTest(m, i) ==
  IF m.stopRequested
  THEN [m EXCEPT !.running = FALSE, !.loopPromise = FALSE, !.loopPc[i] = "none"]
  ELSE [m EXCEPT !.loopPc[i] = "read"]

SetMonitor(m) ==
  /\ running' = m.running
  /\ clipStopRequested' = m.stopRequested
  /\ loopPromise' = m.loopPromise
  /\ loopPc' = m.loopPc

ClipStart ==
  /\ SetMonitor(startClipboardMonitor(Monitor))
  /\ clipLog' = [clipLog EXCEPT
                   !.lastCall = IF startClipboardMonitor(Monitor).loopPc = loopPc
                                THEN "start-ignored" ELSE "start-launched",
                   !.stopWasPending = clipStopRequested]
  /\ UNCHANGED <<sequence, lastClipboardText, otherThanClip>>

\* stopClipboardMonitor()
ClipStop ==
  /\ clipStopRequested' = TRUE
  /\ clipLog' = [clipLog EXCEPT !.lastCall = "stop", !.stoppedAt = loopPc]
  /\ UNCHANGED <<running, loopPromise, loopPc, sequence, lastClipboardText, otherThanClip>>

\* readClipboard settles (it resolves to "" on every failure).
ClipRead(i, text) ==
  /\ loopPc[i] = "read"
  /\ IF text = "" \/ text = lastClipboardText
     THEN /\ loopPc' = [loopPc EXCEPT ![i] = "sleep"]
          /\ UNCHANGED <<sequence, lastClipboardText>>
     ELSE /\ sequence < MaxSequence
          /\ lastClipboardText' = text
          /\ sequence' = sequence + 1
          /\ loopPc' = [loopPc EXCEPT ![i] = "detect"]
  /\ UNCHANGED <<running, clipStopRequested, loopPromise, clipLog, otherThanClip>>

\* detectIntent settles: null, an intent with neither flag, or an intent
\* that goes to processIntent.
ClipDetect(i, result) ==
  /\ loopPc[i] = "detect"
  /\ loopPc' = [loopPc EXCEPT ![i] = IF result = "intent" THEN "process" ELSE "sleep"]
  /\ UNCHANGED <<running, clipStopRequested, loopPromise, sequence, lastClipboardText,
                 clipLog, otherThanClip>>

\* processIntent settles; its error is caught by the iteration's try block.
ClipProcess(i) ==
  /\ loopPc[i] = "process"
  /\ loopPc' = [loopPc EXCEPT ![i] = "sleep"]
  /\ UNCHANGED <<running, clipStopRequested, loopPromise, sequence, lastClipboardText,
                 clipLog, otherThanClip>>

\* `await sleep(pollIntervalMs)` ends and the loop condition is tested.
ClipSleepDone(i) ==
  /\ loopPc[i] = "sleep"
  /\ SetMonitor(whileTest(Monitor, i))
  /\ UNCHANGED <<sequence, lastClipboardText, clipLog, otherThanClip>>

CRead == \E i \in ClipLoops, text \in ClipTexts : ClipRead(i, text)
CDetect == \E i \in ClipLoops, result \in {"null", "neither", "intent"} : ClipDetect(i, result)
CProcess == \E i \in ClipLoops : ClipProcess(i)
CSleepDone == \E i \in ClipLoops : ClipSleepDone(i)

ClipLoopStep == CRead \/ CDetect \/ CProcess \/ CSleepDone

NextClipboard ==
  \/ ClipStart
  \/ ClipStop
  \/ CRead
  \/ CDetect
  \/ CProcess
  \/ CSleepDone

\* Every call the loop awaits settles and its timer fires: a suspended loop
\* is resumed.
SpecClipboard == InitClipboard /\ [][NextClipboard]_vars /\ WF_vars(ClipLoopStep)

activeLoops == {i \in ClipLoops : loopPc[i] # "none"}

\* C38: whatever the order of start and stop calls, at most one activation
\* of the clipboard loop exists, running and loopPromise are set exactly
\* while it does, and a start call that meets a running loop (a stop request
\* pending or not) launches nothing.
C38_OneClipboardLoop ==
  /\ Cardinality(activeLoops) <= 1
  /\ running <=> activeLoops # {}
  /\ loopPromise <=> running
  /\ clipLog.lastCall = "start-launched" => Cardinality(activeLoops) = 1

\* A start call met the loop in its classifier call with a stop request
\* pending: nothing was launched and the request was withdrawn.
C38_Witness ==
  /\ clipLog.lastCall = "start-ignored"
  /\ clipLog.stopWasPending
  /\ clipLog.stoppedAt[1] = "detect"
  /\ loopPc = [i \in ClipLoops |-> IF i = 1 THEN "detect" ELSE "none"]
  /\ running
  /\ ~clipStopRequested

\* C39: an iteration in flight is never cut short (the loop ends only at
\* its loop condition, after a sleep), and when stopClipboardMonitor is the
\* last call made, the loop eventually exits and running is false from then
\* on.
C39_StopEndsLoop ==
  /\ [][\A i \in ClipLoops : loopPc'[i] = "none" => loopPc[i] \in {"none", "sleep"}]_vars
  /\ <>[](clipLog.lastCall = "stop") => <>[](~running /\ activeLoops = {})

\* The stop call met the loop in processIntent; the loop has exited.
C39_Witness ==
  /\ clipLog.lastCall = "stop"
  /\ clipLog.stoppedAt[1] = "process"
  /\ ~running
  /\ ~loopPromise
  /\ activeLoops = {}
  /\ sequence = 1

====
